---- MODULE Spec2Model ----
(***************************************************************************)
(* A model of GoMedCamp's CampResourceManagementPage (src/unnamed/part_001):*)
(* the React state of the page, its handlers and effects, and the cost      *)
(* estimate calculateEstimatedCost derives from that state; and of the      *)
(* heatmap of OrganizerDashboard (src/src/components/OrganizerDashboard.jsx)*)
(* further down.                                                            *)
(*                                                                          *)
(* JavaScript values.  A field of an entry, and targetPatients, can hold a  *)
(* number (the initial state, a server response), a string (the value of an *)
(* <input>, a server response) or nothing (undefined / null).  Numbers are  *)
(* kept in HALVES: the model number h stands for the JavaScript number h/2. *)
(* Every such number, and every sum and product of them the page computes,  *)
(* is exact in IEEE-754 double arithmetic; the two multiplications by 0.85  *)
(* and 1.15, which are not, are modelled with their rounding (FloatMul).    *)
(* A string is a tuple of one-character strings, so that parseInt and       *)
(* parseFloat can be modelled by what they do to the characters.            *)
(***************************************************************************)
EXTENDS Integers, Sequences, FiniteSets, TLC

Num(h) == [t |-> "num", h |-> h, s |-> <<>>]
Str(s) == [t |-> "str", h |-> 0, s |-> s]
Undef == [t |-> "undef", h |-> 0, s |-> <<>>]

\* The result of a numeric conversion: NaN, or a finite number in halves.
NaN == [nan |-> TRUE, h |-> 0]
Fin(h) == [nan |-> FALSE, h |-> h]

Digits == {"0", "1", "2", "3", "4", "5", "6", "7", "8", "9"}
DigitVal == "0" :> 0 @@ "1" :> 1 @@ "2" :> 2 @@ "3" :> 3 @@ "4" :> 4 @@
            "5" :> 5 @@ "6" :> 6 @@ "7" :> 7 @@ "8" :> 8 @@ "9" :> 9
WhiteSpace == {" "}

Abs(n) == IF n < 0 THEN 0 - n ELSE n
Sign(n) == IF n < 0 THEN 0 - 1 ELSE 1

RECURSIVE Pow10(_)
Pow10(k) == IF k = 0 THEN 1 ELSE 10 * Pow10(k - 1)

\* StrWhiteSpaceChar* : both parsers skip leading white space.
RECURSIVE TrimStart(_)
TrimStart(s) ==
    IF s # <<>> /\ Head(s) \in WhiteSpace THEN TrimStart(Tail(s)) ELSE s

\* The length of the longest prefix of s made of decimal digits.
RECURSIVE DigitRun(_)
DigitRun(s) ==
    IF s # <<>> /\ Head(s) \in Digits THEN 1 + DigitRun(Tail(s)) ELSE 0

\* The value of a tuple of decimal digits, most significant first.
RECURSIVE DecimalValue(_)
DecimalValue(s) ==
    IF s = <<>> THEN 0
    ELSE 10 * DecimalValue(SubSeq(s, 1, Len(s) - 1)) + DigitVal[s[Len(s)]]

\* s without its first n characters.
Drop(s, n) == SubSeq(s, n + 1, Len(s))

\* parseInt(text, 10): white space, an optional sign, then the longest run
\* of digits; NaN when there is no digit.  What follows the digits is ignored.
ParseIntText(text) ==
    LET s0 == TrimStart(text)
        signed == s0 # <<>> /\ Head(s0) \in {"-", "+"}
        sgn == IF signed /\ Head(s0) = "-" THEN 0 - 1 ELSE 1
        s1 == IF signed THEN Tail(s0) ELSE s0
        n == DigitRun(s1)
    IN  IF n = 0 THEN NaN
        ELSE Fin(sgn * 2 * DecimalValue(SubSeq(s1, 1, n)))

\* parseFloat(text): white space, an optional sign, digits, optionally a dot
\* and more digits; NaN when neither side of the dot has a digit.  The
\* fraction is converted to halves, which is exact for the fractions the
\* model's texts hold (.0 and .5).
ParseFloatText(text) ==
    LET s0 == TrimStart(text)
        signed == s0 # <<>> /\ Head(s0) \in {"-", "+"}
        sgn == IF signed /\ Head(s0) = "-" THEN 0 - 1 ELSE 1
        s1 == IF signed THEN Tail(s0) ELSE s0
        n == DigitRun(s1)
        s2 == Drop(s1, n)
        dotted == s2 # <<>> /\ Head(s2) = "."
        f == IF dotted THEN DigitRun(Tail(s2)) ELSE 0
        whole == DecimalValue(SubSeq(s1, 1, n))
        frac == IF f = 0 THEN 0
                ELSE (2 * DecimalValue(SubSeq(Tail(s2), 1, f))) \div Pow10(f)
    IN  IF n = 0 /\ f = 0 THEN NaN
        ELSE Fin(sgn * (2 * whole + frac))

\* parseInt(v, 10) of any value: v is converted to a string first, so a
\* number loses its fraction (truncation toward zero) and undefined/null
\* ("undefined", "null") give NaN.
ParseInt(v) ==
    CASE v.t = "num" -> Fin(Sign(v.h) * 2 * (Abs(v.h) \div 2))
      [] v.t = "str" -> ParseIntText(v.s)
      [] OTHER -> NaN

\* parseFloat(v) of any value: a number comes back unchanged.
ParseFloat(v) ==
    CASE v.t = "num" -> Fin(v.h)
      [] v.t = "str" -> ParseFloatText(v.s)
      [] OTHER -> NaN

\* x || 0 for a number x: NaN and 0 are falsy.
OrZero(x) == IF x.nan THEN 0 ELSE x.h

\* v is truthy: not undefined/null, not 0 or NaN, not the empty string.
Truthy(v) ==
    CASE v.t = "num" -> v.h # 0
      [] v.t = "str" -> v.s # <<>>
      [] OTHER -> FALSE

(***************************************************************************)
(* Dates.  start_date and end_date are strings of the server's response.    *)
(* A well-formed one names a day of January 2025 and an hour of that day    *)
(* (UTC); new Date() turns it into milliseconds, here counted from          *)
(* 2025-01-01T00:00Z.  A malformed one is a non-empty string new Date()     *)
(* cannot parse (an Invalid Date, whose time value is NaN).                 *)
(***************************************************************************)
MsPerHour == 1000 * 60 * 60
MsPerDay == 1000 * 60 * 60 * 24

DateStr(day, hour) == [k |-> "date", day |-> day, hour |-> hour]
MalformedDate == [k |-> "malformed", day |-> 0, hour |-> 0]
MissingDate == [k |-> "missing", day |-> 0, hour |-> 0]

\* The truthiness of a date field: a missing one (undefined, null, "") is falsy.
DateTruthy(d) == d.k \in {"date", "malformed"}

\* new Date(d) as a time value: [nan, ms].
NewDate(d) ==
    IF d.k = "date"
    THEN [nan |-> FALSE, ms |-> (d.day - 1) * MsPerDay + d.hour * MsPerHour]
    ELSE [nan |-> TRUE, ms |-> 0]

\* endDate - startDate, Math.abs, division and Math.ceil all propagate NaN.
TimeDiff(a, b) ==
    IF a.nan \/ b.nan THEN [nan |-> TRUE, ms |-> 0]
    ELSE [nan |-> FALSE, ms |-> a.ms - b.ms]

\* Line 31 without Math.abs: endDate - startDate as it is.
MathAbsMissing(x) == x

\* Math.abs(endDate - startDate) (line 31).
MathAbs(x) == IF x.nan THEN x ELSE [nan |-> FALSE, ms |-> Abs(x.ms)]

\* Math.ceil(x / d) for integers x and d > 0.
CeilDiv(x, d) == 0 - ((0 - x) \div d)

\* Line 32 without its "+ 1": the end day is not counted.
DiffDaysExclusive(diffTime) ==
    IF diffTime.nan THEN [nan |-> TRUE, n |-> 0]
    ELSE [nan |-> FALSE, n |-> CeilDiv(diffTime.ms, MsPerDay)]

\* Math.ceil(diffTime / (1000 * 60 * 60 * 24)) + 1 (line 32): [nan, n].
DiffDays(diffTime) ==
    IF diffTime.nan THEN [nan |-> TRUE, n |-> 0]
    ELSE [nan |-> FALSE, n |-> CeilDiv(diffTime.ms, MsPerDay) + 1]

\* What line 33 would return without its floor: diffDays itself.
MinimumOneDayMissing(diffDays) == diffDays.n

\* diffDays > 0 ? diffDays : 1 (line 33); the comparison is false for NaN.
MinimumOneDay(diffDays) ==
    IF ~diffDays.nan /\ diffDays.n > 0 THEN diffDays.n ELSE 1

NoCamp == [loaded |-> FALSE, start_date |-> MissingDate, end_date |-> MissingDate]
Camp(s, e) == [loaded |-> TRUE, start_date |-> s, end_date |-> e]

calculateCampDurationDays(campDetails) ==
    IF campDetails.loaded /\ DateTruthy(campDetails.start_date)
                          /\ DateTruthy(campDetails.end_date)
    THEN LET startDate == NewDate(campDetails.start_date)
             endDate == NewDate(campDetails.end_date)
             diffTime == MathAbs(TimeDiff(endDate, startDate))
             diffDays == DiffDays(diffTime)
         IN  MinimumOneDay(diffDays)
    ELSE 1

(***************************************************************************)
(* The cost estimate.                                                       *)
(***************************************************************************)
staffPerDay == 50
medicinePerUnit == 2
equipmentPerItem == 75

\* A staff reduce that charges only the entries that have a name.
RECURSIVE staffCostNamedOnly(_, _)
staffCostNamedOnly(staffList, durationDays) ==
    IF staffList = <<>> THEN 0
    ELSE staffCostNamedOnly(SubSeq(staffList, 1, Len(staffList) - 1), durationDays)
         + (IF staffList[Len(staffList)].name # ""
            THEN 2 * (staffPerDay * durationDays) ELSE 0)

\* staffList.reduce((total) => total + staffPerDay * durationDays, 0), in halves.
RECURSIVE staffCost(_, _)
staffCost(staffList, durationDays) ==
    IF staffList = <<>> THEN 0
    ELSE staffCost(SubSeq(staffList, 1, Len(staffList) - 1), durationDays)
         + 2 * (staffPerDay * durationDays)

\* A medicine reduce that reads targetPatients with parseFloat.
RECURSIVE medicineCostFloatPatients(_, _)
medicineCostFloatPatients(medicineList, targetPatients) ==
    IF medicineList = <<>> THEN 0
    ELSE LET med == medicineList[Len(medicineList)]
             qty == OrZero(ParseFloat(med.quantityPerPatient))
             numPatients == OrZero(ParseFloat(targetPatients))
         IN  medicineCostFloatPatients(
                 SubSeq(medicineList, 1, Len(medicineList) - 1), targetPatients)
             + (qty * numPatients * medicinePerUnit) \div 2

\* medicineList.reduce(...): qty in halves, numPatients an integer.
RECURSIVE medicineCost(_, _)
medicineCost(medicineList, targetPatients) ==
    IF medicineList = <<>> THEN 0
    ELSE LET med == medicineList[Len(medicineList)]
             qty == OrZero(ParseFloat(med.quantityPerPatient))
             numPatients == OrZero(ParseInt(targetPatients)) \div 2
         IN  medicineCost(SubSeq(medicineList, 1, Len(medicineList) - 1),
                          targetPatients)
             + qty * numPatients * medicinePerUnit

\* An equipment reduce that reads quantity with parseFloat.
RECURSIVE equipmentCostFloatQty(_)
equipmentCostFloatQty(equipmentList) ==
    IF equipmentList = <<>> THEN 0
    ELSE LET equip == equipmentList[Len(equipmentList)]
             qty == OrZero(ParseFloat(equip.quantity))
         IN  equipmentCostFloatQty(SubSeq(equipmentList, 1, Len(equipmentList) - 1))
             + qty * equipmentPerItem

\* equipmentList.reduce(...), in halves.
RECURSIVE equipmentCost(_)
equipmentCost(equipmentList) ==
    IF equipmentList = <<>> THEN 0
    ELSE LET equip == equipmentList[Len(equipmentList)]
             qty == OrZero(ParseInt(equip.quantity))
         IN  equipmentCost(SubSeq(equipmentList, 1, Len(equipmentList) - 1))
             + qty * equipmentPerItem

\* The largest power of two that is <= n, for n >= 1.
RECURSIVE Pow2Floor(_)
Pow2Floor(n) == IF n < 2 THEN 1 ELSE 2 * Pow2Floor(n \div 2)

(***************************************************************************)
(* base * 0.85 and base * 1.15 in double arithmetic, for base in halves.    *)
(* The result is [v, below]: v is the exact product in units of 1/200, and  *)
(* below says that the double the multiplication returns is smaller than    *)
(* the exact product although the exact product is k + 1/2 for an integer   *)
(* k, the one case in which the rounding of the multiplication changes      *)
(* Math.round's result.  The double nearest 0.85 is 0.85 - 0.1 * 2^-52 and  *)
(* the double nearest 1.15 is 1.15 - 0.4 * 2^-52, so the product falls      *)
(* short of k + 1/2 by base * 0.1 * 2^-52, respectively base * 0.4 * 2^-52, *)
(* and is rounded to the double below k + 1/2 when that exceeds half the    *)
(* spacing 2^(e-52) of the doubles in [2^e, 2^(e+1)), the binade of k + 1/2:*)
(* never for 0.85, and for 1.15 when 4 * base > 5 * 2^e.                    *)
(***************************************************************************)
FloatMul(baseHalves, percent) ==
    LET v == baseHalves * percent
        half == (v + 100) % 200 = 0
        k == (v - 100) \div 200
    IN  [v |-> v,
         below |-> /\ half
                   /\ baseHalves > 0
                   /\ percent = 115
                   /\ 2 * baseHalves > 5 * Pow2Floor(k)]

\* Math.round(x): the integer nearest x, a tie going up (toward +Infinity).
MathRound(x) ==
    IF x.below THEN (x.v + 100) \div 200 - 1 ELSE (x.v + 100) \div 200

totalBaseCost(staffList, medicineList, equipmentList, targetPatients, campDetails) ==
    staffCost(staffList, calculateCampDurationDays(campDetails))
    + medicineCost(medicineList, targetPatients)
    + equipmentCost(equipmentList)

\* A band around a base raised by a fixed charge.
EstimateBandWithCharge(base) ==
    [min |-> MathRound(FloatMul(base + 2 * staffPerDay, 85)),
     max |-> MathRound(FloatMul(base + 2 * staffPerDay, 115))]

\* The +-15% band around a base cost (in halves): lines 55-58.
EstimateBand(base) ==
    [min |-> MathRound(FloatMul(base, 85)),
     max |-> MathRound(FloatMul(base, 115))]

\* calculateEstimatedCost: the object it hands to setEstimatedCost.
calculateEstimatedCost(staffList, medicineList, equipmentList, targetPatients, campDetails) ==
    EstimateBand(totalBaseCost(staffList, medicineList, equipmentList,
                               targetPatients, campDetails))

(***************************************************************************)
(* The page.                                                                *)
(***************************************************************************)
VARIABLES
    campId,          \* prop: the camp's id, "" when missing
    currentUserId,   \* prop: currentUser?.id, "" when missing
    campDetails,     \* null (NoCamp) or the camp the server returned
    targetPatients,  \* a JavaScript value
    staffList, medicineList, equipmentList,
    newStaff, newMedicine, newEquipment,   \* the three draft entries
    loading, error, saveMessage,
    estimatedCost,   \* {min, max}
    fetchPc,         \* where fetchCampData stands
    effectCause,     \* the pending run of the estimate effect, see below
    savePc,          \* where handleSaveResources stands
    saveRequest,     \* the body of the POST in flight, NoRequest when none
    saveTimers,      \* the pending setTimeout callbacks of line 176
    lastCall,        \* the last direct call of a handler (SpecHandlers)
    \* OrganizerDashboard (src/src/components/OrganizerDashboard.jsx)
    heatmapData, loadingHeatmap, errorHeatmap,
    selectedIndicator, currentIndicatorDetails, currentIndicatorName,
    selectedMapState,
    heatmapEffect,   \* the effect of lines 85-141 is scheduled
    heatmapFetches,  \* the runs of fetchHeatmapData that await their response
    heatmapResolved, \* the response the last resolved run received
    \* the camp's resources as the server keeps them
    persisted,
    \* App (src/src/App.jsx)
    currentPage, currentUser, selectedCampId,
    localStorage,    \* the keys gomedcampUser and gomedcampSelectedCampId
    defaultHeaders,  \* api.defaults.headers.common['X-User-Id']
    pendingEffects,  \* the persistence effects the next commit runs
    renderPending,   \* a state update awaits its render
    rendered,        \* what the last renderPage returned
    redirects,       \* the renders in a row that redirected
    \* ConnectWithAuthoritiesPage and AuthorityDashboard
    chatPage,        \* which of the two components is mounted
    connections,     \* campConnections, acceptedConnections of the dashboard
    chatLoading,     \* loading
    activeChat,
    chatFetches      \* the refreshes of the connections in flight

\* The state handleSaveResources adds to the page's.
saveVars == <<savePc, saveRequest, saveTimers>>

dashboardVars == <<heatmapData, loadingHeatmap, errorHeatmap, selectedIndicator,
                   currentIndicatorDetails, currentIndicatorName,
                   selectedMapState, heatmapEffect, heatmapFetches,
                   heatmapResolved>>

pageVars == <<campId, currentUserId, campDetails, targetPatients, staffList,
              medicineList, equipmentList, newStaff, newMedicine, newEquipment,
              loading, error, saveMessage, estimatedCost, fetchPc, effectCause>>

appVars == <<currentPage, currentUser, selectedCampId, localStorage,
             defaultHeaders, pendingEffects, renderPending, rendered,
             redirects>>

chatVars == <<chatPage, connections, chatLoading, activeChat, chatFetches>>

\* What a step of the resource page leaves alone, the server's copy aside.
offPageVars == <<dashboardVars, appVars, chatVars>>

\* What a step of the dashboard leaves alone.
offDashboardVars == <<pageVars, saveVars, lastCall, persisted, appVars,
                      chatVars>>

vars == <<pageVars, saveVars, lastCall, dashboardVars, persisted, appVars,
          chatVars>>

\* The hosts the resource page talks to: fetchCampData reads from the first
\* (lines 74 and 82), handleSaveResources posts to the second (line 156).
LoadHost == "gomedcamp-1.onrender.com"
SaveHost == "camp-mdxq.onrender.com"
Hosts == {LoadHost, SaveHost}

\* No resources have been saved on any host.
NothingPersisted == [h \in Hosts |-> [sent |-> FALSE]]

\* null, as the value of currentUser and of selectedCampId.
NoUser == [id |-> 0, userType |-> "null"]

NoCampId == 0

\* localStorage.getItem answers null for a key that is not stored.
NoItem == [stored |-> FALSE]

EmptyStorage == [gomedcampUser |-> NoItem, gomedcampSelectedCampId |-> NoItem]

\* The components a specification does not run stay as they are: App on
\* its home page with nobody logged in, no chat component mounted, nothing
\* saved on the server.
AppAtRest ==
    /\ currentPage = "home"
    /\ currentUser = NoUser
    /\ selectedCampId = NoCampId
    /\ localStorage = EmptyStorage
    /\ defaultHeaders = ""
    /\ pendingEffects = {}
    /\ renderPending = FALSE
    /\ rendered = "Home"
    /\ redirects = 0

ChatUnmounted ==
    /\ chatPage = "none"
    /\ connections = <<>>
    /\ chatLoading = FALSE
    /\ activeChat = [open |-> FALSE]   \* null
    /\ chatFetches = 0

OffScreen == AppAtRest /\ ChatUnmounted /\ persisted = NothingPersisted

\* The specifications of the resource page leave the dashboard out: it is
\* not on the screen.
DashboardUnmounted ==
    /\ heatmapData = <<>>
    /\ loadingHeatmap = FALSE
    /\ errorHeatmap = ""
    /\ selectedIndicator = ""
    /\ currentIndicatorDetails = ""
    /\ currentIndicatorName = ""
    /\ selectedMapState = ""
    /\ heatmapEffect = FALSE
    /\ heatmapFetches = <<>>
    /\ heatmapResolved = ""

\* The bounds of the model: the three lists hold at most MaxItems entries
\* together, and at most MaxSaveTimers callbacks of line 176 are pending.
MaxItems == 2
MaxSaveTimers == 1

NoRequest == [sent |-> FALSE]
NoCall == [op |-> "none"]

BlankStaff == [name |-> "", role |-> "", origin |-> "", contact |-> "", notes |-> ""]
BlankMedicine == [name |-> "", unit |-> "", quantityPerPatient |-> Num(0), notes |-> ""]
BlankEquipment == [name |-> "", quantity |-> Num(0), notes |-> ""]

\* { ...draft, id: `temp-${Date.now()}` }; an entry of a server response
\* carries the id "" here.
WithId(entry, id) == [f \in DOMAIN entry \cup {"id"} |->
                         IF f = "id" THEN id ELSE entry[f]]
TempId == "temp"

(***************************************************************************)
(* Rendering and the estimate effect (lines 21-25, 38-59, 103-105).         *)
(* Every state change re-renders the page.  A render creates the object     *)
(* placeholderCosts anew, so the useCallback that lists it in its           *)
(* dependencies returns a new calculateEstimatedCost, and the effect, which *)
(* lists that function, is scheduled again.  effectCause tells which render *)
(* scheduled the pending run of the effect: "inputs" after the mount or a   *)
(* state change made outside the effect, "recompute" after the effect's own *)
(* setEstimatedCost; "idle" when no run is pending.                         *)
(***************************************************************************)
EstimateCallbackDeps ==
    {"staffList", "medicineList", "equipmentList", "targetPatients",
     "campDetails", "placeholderCosts"}

\* The effect's dependency array; its last member is the callback.
EffectDeps ==
    {"staffList", "medicineList", "equipmentList", "targetPatients"}
    \cup EstimateCallbackDeps

\* What differs, to Object.is, between two renders when the states in
\* `changed` were set: those states, and the object literal placeholderCosts.
RenderChanges(changed) == changed \cup {"placeholderCosts"}

\* An effect whose dependency array names the three lists only.
EffectScheduledListsOnly(changed) ==
    changed \cap {"staffList", "medicineList", "equipmentList"} # {}

\* The render that follows setting the states in `changed` schedules the effect.
EffectScheduled(changed) == RenderChanges(changed) \cap EffectDeps # {}

\* effectCause after a state change made by a handler or by fetchCampData.
AfterChange(changed) ==
    IF EffectScheduled(changed) THEN "inputs" ELSE effectCause

\* React runs the effects a render scheduled before it renders again: no
\* handler's or response's state change is applied while the effect of the
\* previous state change is still to run.
EffectsFlushed == effectCause # "inputs"

\* The form is on the page: lines 180-181 return early otherwise.
FormRendered == ~(loading /\ ~campDetails.loaded) /\ error = ""

TotalItems == Len(staffList) + Len(medicineList) + Len(equipmentList)

(***************************************************************************)
(* The inputs of the model.                                                 *)
(***************************************************************************)
\* What the user types into the number inputs: a number input holds "" or a
\* valid number.
NumberInputTexts == {<<>>, <<"1", ".", "5">>}
NameInputs == {"", "Asha"}

\* The camps and the resources the server answers with in Spec.
ServerCamps ==
    {Camp(DateStr(1, 0), DateStr(3, 0)), Camp(DateStr(1, 0), MissingDate)}

\* A response's list: missing, or an array.
NoList == [present |-> FALSE, items |-> <<>>]
List(items) == [present |-> TRUE, items |-> items]

ServerResources ==
    { [targetPatients |-> Undef, staffList |-> NoList,
       medicineList |-> NoList, equipmentList |-> NoList],
      [targetPatients |-> Num(80),
       staffList |-> List(<<WithId([BlankStaff EXCEPT !.name = "Ravi",
                                                       !.role = "doctor"], "")>>),
       medicineList |-> List(<<>>),
       equipmentList |-> List(<<WithId([BlankEquipment EXCEPT !.name = "Cot",
                                            !.quantity = Num(4)], "")>>)] }

\* value || fallback
JsOr(v, fallback) == IF Truthy(v) THEN v ELSE fallback
ListOr(l) == IF l.present THEN l.items ELSE <<>>

(***************************************************************************)
(* The initial state: useState's initial values, before the mount effects.  *)
(***************************************************************************)
InitPage ==
    /\ campDetails = NoCamp
    /\ targetPatients = Num(0)
    /\ staffList = <<>>
    /\ medicineList = <<>>
    /\ equipmentList = <<>>
    /\ newStaff = BlankStaff
    /\ newMedicine = BlankMedicine
    /\ newEquipment = BlankEquipment
    /\ loading = TRUE
    /\ error = ""
    /\ saveMessage = ""
    /\ estimatedCost = [min |-> 0, max |-> 0]
    /\ fetchPc = "mount"
    /\ effectCause = "inputs"
    /\ savePc = "idle"
    /\ saveRequest = NoRequest
    /\ saveTimers = 0

Init ==
    /\ campId \in {"", "camp7"}
    /\ currentUserId \in {"", "user3"}
    /\ InitPage
    /\ lastCall = NoCall
    /\ DashboardUnmounted
    /\ OffScreen

(***************************************************************************)
(* fetchCampData (lines 62-101), one action per await.                      *)
(***************************************************************************)
FetchStart ==
    /\ fetchPc = "mount"
    /\ IF campId = "" \/ currentUserId = ""
       THEN /\ error' = "Camp ID or User ID is missing."
            /\ loading' = FALSE
            /\ fetchPc' = "done"
            /\ effectCause' = AfterChange({"error", "loading"})
            /\ UNCHANGED saveMessage
       ELSE /\ loading' = TRUE
            /\ error' = ""
            /\ saveMessage' = ""
            /\ fetchPc' = "details"
            /\ effectCause' = AfterChange({"loading", "error", "saveMessage"})
    /\ UNCHANGED <<campId, currentUserId, campDetails, targetPatients,
                   staffList, medicineList, equipmentList, newStaff,
                   newMedicine, newEquipment, estimatedCost>>
    /\ UNCHANGED <<saveVars, lastCall, persisted, offPageVars>>

\* The camp details arrive: setCampDetails, then the resources are fetched.
FetchCampDetailsOk ==
    /\ fetchPc = "details"
    /\ EffectsFlushed
    /\ \E campData \in ServerCamps : campDetails' = campData
    /\ fetchPc' = "resources"
    /\ effectCause' = AfterChange({"campDetails"})
    /\ UNCHANGED <<campId, currentUserId, targetPatients, staffList,
                   medicineList, equipmentList, newStaff, newMedicine,
                   newEquipment, loading, error, saveMessage, estimatedCost>>
    /\ UNCHANGED <<saveVars, lastCall, persisted, offPageVars>>

\* A fetch fails or answers with a status that is not ok: catch and finally.
FetchFailed ==
    /\ fetchPc \in {"details", "resources"}
    /\ EffectsFlushed
    /\ error' = IF fetchPc = "details" THEN "Failed to fetch camp details"
                ELSE "Failed to fetch resources"
    /\ loading' = FALSE
    /\ fetchPc' = "done"
    /\ effectCause' = AfterChange({"error", "loading"})
    /\ UNCHANGED <<campId, currentUserId, campDetails, targetPatients,
                   staffList, medicineList, equipmentList, newStaff,
                   newMedicine, newEquipment, saveMessage, estimatedCost>>
    /\ UNCHANGED <<saveVars, lastCall, persisted, offPageVars>>

\* The resources arrive: the four setters, then finally setLoading(false).
\* responses is what the server may answer with.
FetchResourcesFrom(responses) ==
    /\ fetchPc = "resources"
    /\ EffectsFlushed
    /\ \E resourcesData \in responses :
          /\ targetPatients' = JsOr(resourcesData.targetPatients, Num(0))
          /\ staffList' = ListOr(resourcesData.staffList)
          /\ medicineList' = ListOr(resourcesData.medicineList)
          /\ equipmentList' = ListOr(resourcesData.equipmentList)
    /\ loading' = FALSE
    /\ fetchPc' = "done"
    /\ effectCause' = AfterChange({"targetPatients", "staffList", "medicineList",
                                   "equipmentList", "loading"})
    /\ UNCHANGED <<campId, currentUserId, campDetails, newStaff, newMedicine,
                   newEquipment, error, saveMessage, estimatedCost>>
    /\ UNCHANGED <<saveVars, persisted, offPageVars>>

FetchResourcesOk == FetchResourcesFrom(ServerResources) /\ UNCHANGED lastCall

(***************************************************************************)
(* The effect of lines 103-105: calculateEstimatedCost() on the current     *)
(* state.  Its setEstimatedCost hands over a new object, so the page        *)
(* renders again.                                                           *)
(***************************************************************************)
RecomputeEffect ==
    /\ effectCause # "idle"
    /\ estimatedCost' = calculateEstimatedCost(staffList, medicineList,
                            equipmentList, targetPatients, campDetails)
    /\ effectCause' = IF EffectScheduled({"estimatedCost"}) THEN "recompute"
                      ELSE "idle"
    /\ UNCHANGED <<campId, currentUserId, campDetails, targetPatients,
                   staffList, medicineList, equipmentList, newStaff,
                   newMedicine, newEquipment, loading, error, saveMessage,
                   fetchPc>>
    /\ UNCHANGED <<saveVars, lastCall, persisted, offPageVars>>

(***************************************************************************)
(* The user's handlers.                                                     *)
(***************************************************************************)
\* onChange of the target-patients input (line 194).
SetTargetPatients ==
    /\ FormRendered /\ EffectsFlushed
    /\ \E text \in NumberInputTexts : targetPatients' = Str(text)
    /\ effectCause' = AfterChange({"targetPatients"})
    /\ UNCHANGED <<campId, currentUserId, campDetails, staffList, medicineList,
                   equipmentList, newStaff, newMedicine, newEquipment, loading,
                   error, saveMessage, estimatedCost, fetchPc>>
    /\ UNCHANGED <<saveVars, lastCall, persisted, offPageVars>>

\* handleInputChange(setter, field, value) (lines 108-110), for the fields the
\* model's user fills in: the three names and the medicine's quantity.
handleInputChange ==
    /\ FormRendered /\ EffectsFlushed
    /\ \/ /\ \E v \in NameInputs : newStaff' = [newStaff EXCEPT !.name = v]
          /\ effectCause' = AfterChange({"newStaff"})
          /\ UNCHANGED <<newMedicine, newEquipment>>
       \/ /\ \/ \E v \in NameInputs : newMedicine' = [newMedicine EXCEPT !.name = v]
             \/ \E t \in NumberInputTexts \ {<<>>} :
                   newMedicine' = [newMedicine EXCEPT !.quantityPerPatient = Str(t)]
          /\ effectCause' = AfterChange({"newMedicine"})
          /\ UNCHANGED <<newStaff, newEquipment>>
       \/ /\ \E v \in NameInputs : newEquipment' = [newEquipment EXCEPT !.name = v]
          /\ effectCause' = AfterChange({"newEquipment"})
          /\ UNCHANGED <<newStaff, newMedicine>>
    /\ UNCHANGED <<campId, currentUserId, campDetails, targetPatients,
                   staffList, medicineList, equipmentList, loading, error,
                   saveMessage, estimatedCost, fetchPc>>
    /\ UNCHANGED <<saveVars, lastCall, persisted, offPageVars>>

\* An addItem that does not look at the draft's name.
addItemAnyName(type) ==
    /\ FormRendered /\ ~loading /\ EffectsFlushed
    /\ TotalItems < MaxItems
    /\ CASE type = "staff" ->
              /\ staffList' = Append(staffList, WithId(newStaff, TempId))
              /\ newStaff' = BlankStaff
              /\ effectCause' = AfterChange({"staffList", "newStaff"})
              /\ UNCHANGED <<medicineList, equipmentList, newMedicine, newEquipment>>
         [] type = "medicine" ->
              /\ medicineList' = Append(medicineList, WithId(newMedicine, TempId))
              /\ newMedicine' = BlankMedicine
              /\ effectCause' = AfterChange({"medicineList", "newMedicine"})
              /\ UNCHANGED <<staffList, equipmentList, newStaff, newEquipment>>
         [] type = "equipment" ->
              /\ equipmentList' = Append(equipmentList, WithId(newEquipment, TempId))
              /\ newEquipment' = BlankEquipment
              /\ effectCause' = AfterChange({"equipmentList", "newEquipment"})
              /\ UNCHANGED <<staffList, medicineList, newStaff, newMedicine>>
    /\ UNCHANGED <<campId, currentUserId, campDetails, targetPatients, loading,
                   error, saveMessage, estimatedCost, fetchPc>>
    /\ UNCHANGED <<saveVars, persisted, offPageVars>>

\* addItem(type) (lines 112-123); the buttons are disabled while loading.
addItem(type) ==
    /\ FormRendered /\ ~loading /\ EffectsFlushed
    /\ TotalItems < MaxItems
    /\ CASE type = "staff" /\ newStaff.name # "" ->
              /\ staffList' = Append(staffList, WithId(newStaff, TempId))
              /\ newStaff' = BlankStaff
              /\ effectCause' = AfterChange({"staffList", "newStaff"})
              /\ UNCHANGED <<medicineList, equipmentList, newMedicine, newEquipment>>
         [] type = "medicine" /\ newMedicine.name # "" ->
              /\ medicineList' = Append(medicineList, WithId(newMedicine, TempId))
              /\ newMedicine' = BlankMedicine
              /\ effectCause' = AfterChange({"medicineList", "newMedicine"})
              /\ UNCHANGED <<staffList, equipmentList, newStaff, newEquipment>>
         [] type = "equipment" /\ newEquipment.name # "" ->
              /\ equipmentList' = Append(equipmentList, WithId(newEquipment, TempId))
              /\ newEquipment' = BlankEquipment
              /\ effectCause' = AfterChange({"equipmentList", "newEquipment"})
              /\ UNCHANGED <<staffList, medicineList, newStaff, newMedicine>>
         [] OTHER ->
              UNCHANGED <<staffList, medicineList, equipmentList, newStaff,
                          newMedicine, newEquipment, effectCause>>
    /\ UNCHANGED <<campId, currentUserId, campDetails, targetPatients, loading,
                   error, saveMessage, estimatedCost, fetchPc>>
    /\ UNCHANGED <<saveVars, persisted, offPageVars>>

\* A removal that takes the last element when the index is out of range.
RemoveAtOrLast(list, index) ==
    [j \in 1..(Len(list) - (IF list # <<>> THEN 1 ELSE 0)) |->
        IF j <= index THEN list[j] ELSE list[j + 1]]

\* list.filter((_, i) => i !== index)
RemoveAt(list, index) ==
    [j \in 1..(Len(list) - (IF index \in 0..(Len(list) - 1) THEN 1 ELSE 0)) |->
        IF j <= index THEN list[j] ELSE list[j + 1]]

\* removeItem(type, index) (lines 125-129), index counted from 0.
removeItem(type, index) ==
    /\ FormRendered /\ ~loading /\ EffectsFlushed
    /\ CASE type = "staff" ->
              /\ staffList' = RemoveAt(staffList, index)
              /\ effectCause' = AfterChange({"staffList"})
              /\ UNCHANGED <<medicineList, equipmentList>>
         [] type = "medicine" ->
              /\ medicineList' = RemoveAt(medicineList, index)
              /\ effectCause' = AfterChange({"medicineList"})
              /\ UNCHANGED <<staffList, equipmentList>>
         [] type = "equipment" ->
              /\ equipmentList' = RemoveAt(equipmentList, index)
              /\ effectCause' = AfterChange({"equipmentList"})
              /\ UNCHANGED <<staffList, medicineList>>
    /\ UNCHANGED <<campId, currentUserId, campDetails, targetPatients, newStaff,
                   newMedicine, newEquipment, loading, error, saveMessage,
                   estimatedCost, fetchPc>>
    /\ UNCHANGED <<saveVars, persisted, offPageVars>>

ItemTypes == {"staff", "medicine", "equipment"}

ListOf(type) ==
    CASE type = "staff" -> staffList
      [] type = "medicine" -> medicineList
      [] type = "equipment" -> equipmentList

\* The page shows a Remove button per entry (lines 218-223, 238-243, 258-263).
RemoveButtonShown(type, index) == index < Len(ListOf(type))

(***************************************************************************)
(* handleSaveResources (lines 134-178): the payload, the POST, and what the *)
(* page does with the response.                                             *)
(***************************************************************************)
\* An entry sent with its id.
StripIdMissing(entry) == entry

\* ({ id, ...rest }) => rest
StripId(entry) == [f \in DOMAIN entry \ {"id"} |-> entry[f]]

PayloadStaff(staff) == StripId(staff)
PayloadMedicine(med) ==
    [StripId(med) EXCEPT
        !.quantityPerPatient = Num(OrZero(ParseFloat(med.quantityPerPatient)))]
PayloadEquipment(equip) ==
    [StripId(equip) EXCEPT !.quantity = Num(OrZero(ParseInt(equip.quantity)))]

\* The object of lines 143-154.
Payload ==
    [sent |-> TRUE,
     targetPatients |-> Num(OrZero(ParseInt(targetPatients))),
     staffList |-> [j \in 1..Len(staffList) |-> PayloadStaff(staffList[j])],
     medicineList |->
         [j \in 1..Len(medicineList) |-> PayloadMedicine(medicineList[j])],
     equipmentList |->
         [j \in 1..Len(equipmentList) |-> PayloadEquipment(equipmentList[j])]]

\* The click on Save All Resources, up to the await of line 156.
handleSaveResources ==
    /\ FormRendered /\ ~loading /\ EffectsFlushed
    /\ savePc = "idle"
    /\ saveTimers < MaxSaveTimers
    /\ IF currentUserId = ""
       THEN /\ error' = "User not authenticated to save."
            /\ effectCause' = AfterChange({"error"})
            /\ UNCHANGED <<loading, saveMessage, savePc, saveRequest>>
       ELSE /\ loading' = TRUE
            /\ error' = ""
            /\ saveMessage' = ""
            /\ saveRequest' = Payload
            /\ savePc' = "posting"
            /\ effectCause' = AfterChange({"loading", "error", "saveMessage"})
    /\ UNCHANGED <<campId, currentUserId, campDetails, targetPatients,
                   staffList, medicineList, equipmentList, newStaff,
                   newMedicine, newEquipment, estimatedCost, fetchPc,
                   saveTimers, persisted, offPageVars>>

\* The response is ok: lines 169 and 174-177.
SaveOk ==
    /\ savePc = "posting" /\ EffectsFlushed
    /\ saveMessage' = "Resources saved successfully!"
    /\ loading' = FALSE
    /\ savePc' = "idle"
    /\ saveRequest' = NoRequest
    /\ saveTimers' = saveTimers + 1
    /\ effectCause' = AfterChange({"saveMessage", "loading"})
    /\ UNCHANGED <<campId, currentUserId, campDetails, targetPatients,
                   staffList, medicineList, equipmentList, newStaff,
                   newMedicine, newEquipment, error, estimatedCost, fetchPc,
                   lastCall, offPageVars>>

\* The fetch throws or the response is not ok: lines 165-168 and 171-177.
SaveFailed ==
    /\ savePc = "posting" /\ EffectsFlushed
    /\ error' = "Failed to save resources"
    /\ loading' = FALSE
    /\ savePc' = "idle"
    /\ saveRequest' = NoRequest
    /\ saveTimers' = saveTimers + 1
    /\ effectCause' = AfterChange({"error", "loading"})
    /\ UNCHANGED <<campId, currentUserId, campDetails, targetPatients,
                   staffList, medicineList, equipmentList, newStaff,
                   newMedicine, newEquipment, saveMessage, estimatedCost,
                   fetchPc, lastCall, persisted,
                   offPageVars>>

\* The callback of line 176, three seconds after the finally block.
SaveMessageTimeout ==
    /\ saveTimers > 0 /\ EffectsFlushed
    /\ saveTimers' = saveTimers - 1
    /\ saveMessage' = ""
    /\ effectCause' = IF saveMessage # "" THEN AfterChange({"saveMessage"})
                      ELSE effectCause
    /\ UNCHANGED <<campId, currentUserId, campDetails, targetPatients,
                   staffList, medicineList, equipmentList, newStaff,
                   newMedicine, newEquipment, loading, error, estimatedCost,
                   fetchPc, savePc, saveRequest, lastCall, persisted,
                   offPageVars>>

Next ==
    \/ FetchStart
    \/ FetchCampDetailsOk
    \/ FetchFailed
    \/ FetchResourcesOk
    \/ RecomputeEffect
    \/ SetTargetPatients
    \/ handleInputChange
    \/ \E type \in ItemTypes : addItem(type) /\ UNCHANGED lastCall
    \/ \E type \in ItemTypes : \E index \in 0..(MaxItems - 1) :
          RemoveButtonShown(type, index) /\ removeItem(type, index)
          /\ UNCHANGED lastCall
    \/ handleSaveResources /\ UNCHANGED lastCall
    \/ SaveOk /\ UNCHANGED persisted
    \/ SaveFailed
    \/ SaveMessageTimeout

Spec == Init /\ [][Next]_vars

(***************************************************************************)
(* The estimate as a function of the page's state: SpecEstimate starts from *)
(* the page as a resources response (or the user's typing) can leave it,    *)
(* with any lists of at most MaxItems entries, any targetPatients and any   *)
(* camp window of the sets below, and runs the estimate effect on it.       *)
(***************************************************************************)
\* The values the numeric fields hold: numbers (2, 1.5), what a number input
\* holds ("", "1.5", "-1"), other strings of a response, and nothing.
PatientValues ==
    {Num(4), Num(3), Str(<<"1", ".", "5">>), Str(<<"-", "1">>),
     Str(<<"3", "k", "g">>), Str(<<"a", "b", "c">>), Undef}

QuantityPerPatientValues ==
    {Num(3), Str(<<>>), Str(<<"1", ".", "5">>), Str(<<"-", "1">>),
     Str(<<"3", "k", "g">>), Undef}

QuantityValues ==
    {Num(3), Str(<<"1", ".", "5">>), Str(<<"-", "1">>), Str(<<"3", "k", "g">>),
     Str(<<"a", "b", "c">>), Undef}

DateValues ==
    {MissingDate, MalformedDate, DateStr(1, 0), DateStr(3, 12), DateStr(5, 0)}

CampValues == {NoCamp} \cup {Camp(s, e) : s \in DateValues, e \in DateValues}

StaffEntries ==
    { [name |-> "Asha", role |-> "nurse", origin |-> "PHC Kota",
       contact |-> "98450", notes |-> "night shift", id |-> TempId],
      [name |-> "", role |-> "", origin |-> "", contact |-> "", notes |-> "",
       id |-> ""] }

MedicineEntries ==
    {WithId([BlankMedicine EXCEPT !.name = "ORS", !.quantityPerPatient = q], "") :
        q \in QuantityPerPatientValues}

EquipmentEntries ==
    {WithId([BlankEquipment EXCEPT !.name = "Cot", !.quantity = q], "") :
        q \in QuantityValues}

InitEstimate ==
    /\ campId = "camp7"
    /\ currentUserId = "user3"
    /\ campDetails \in CampValues
    \* line 88 stores `resourcesData.targetPatients || 0`, line 194 a string
    /\ targetPatients \in {JsOr(v, Num(0)) : v \in PatientValues} \cup {Str(<<>>)}
    /\ \E a \in 0..MaxItems : \E b \in 0..(MaxItems - a) :
          \E c \in 0..(MaxItems - a - b) :
             /\ staffList \in [1..a -> StaffEntries]
             /\ medicineList \in [1..b -> MedicineEntries]
             /\ equipmentList \in [1..c -> EquipmentEntries]
    /\ newStaff = BlankStaff
    /\ newMedicine = BlankMedicine
    /\ newEquipment = BlankEquipment
    /\ loading = FALSE
    /\ error = ""
    /\ saveMessage = ""
    /\ estimatedCost = [min |-> 0, max |-> 0]
    /\ fetchPc = "done"
    /\ effectCause = "inputs"
    /\ savePc = "idle"
    /\ saveRequest = NoRequest
    /\ saveTimers = 0
    /\ lastCall = NoCall
    /\ DashboardUnmounted
    /\ OffScreen

NextEstimate == RecomputeEffect

SpecEstimate == InitEstimate /\ [][NextEstimate]_vars

(***************************************************************************)
(* The handlers as functions of the page's state: SpecHandlers starts from  *)
(* the rendered form with any lists of at most MaxItems entries and any     *)
(* drafts of the sets below, and calls addItem and removeItem with every    *)
(* type and every index up to MaxItems; lastCall keeps the arguments of the *)
(* call and the state it was made in.                                       *)
(***************************************************************************)
HandlerStaff ==
    { [name |-> "Ravi", role |-> "doctor", origin |-> "", contact |-> "",
       notes |-> "", id |-> ""],
      [name |-> "Asha", role |-> "", origin |-> "", contact |-> "",
       notes |-> "", id |-> TempId] }
HandlerMedicine ==
    {WithId([BlankMedicine EXCEPT !.name = "ORS", !.quantityPerPatient = q], "") :
        q \in {Num(3), Str(<<"1", ".", "5">>)}}
HandlerEquipment ==
    {WithId([BlankEquipment EXCEPT !.name = "Cot", !.quantity = q], "") :
        q \in {Num(3), Str(<<"1", ".", "5">>)}}

InitHandlers ==
    /\ campId = "camp7"
    /\ currentUserId = "user3"
    /\ campDetails = Camp(DateStr(1, 0), DateStr(3, 0))
    /\ targetPatients = Num(8)
    /\ \E a \in 0..MaxItems : \E b \in 0..(MaxItems - a) :
          \E c \in 0..(MaxItems - a - b) :
             /\ staffList \in [1..a -> HandlerStaff]
             /\ medicineList \in [1..b -> HandlerMedicine]
             /\ equipmentList \in [1..c -> HandlerEquipment]
    /\ newStaff \in {[BlankStaff EXCEPT !.name = n] : n \in NameInputs}
    /\ newMedicine \in {[BlankMedicine EXCEPT !.name = n] : n \in NameInputs}
    /\ newEquipment \in
          {[BlankEquipment EXCEPT !.name = n, !.quantity = Str(<<"1", ".", "5">>)] :
              n \in NameInputs}
    /\ loading = FALSE
    /\ error = ""
    /\ saveMessage = ""
    /\ estimatedCost = [min |-> 0, max |-> 0]
    /\ fetchPc = "done"
    /\ effectCause = "inputs"
    /\ savePc = "idle"
    /\ saveRequest = NoRequest
    /\ saveTimers = 0
    /\ lastCall = NoCall
    /\ DashboardUnmounted
    /\ OffScreen

\* The call, and the state it is made in.
Call(op, type, index) ==
    [op |-> op, type |-> type, index |-> index,
     staffList |-> staffList, medicineList |-> medicineList,
     equipmentList |-> equipmentList, newStaff |-> newStaff,
     newMedicine |-> newMedicine, newEquipment |-> newEquipment,
     error |-> error, targetPatients |-> targetPatients]

CallAddItem ==
    \E type \in ItemTypes :
        addItem(type) /\ lastCall' = Call("addItem", type, 0)

CallRemoveItem ==
    \E type \in ItemTypes : \E index \in 0..MaxItems :
        removeItem(type, index) /\ lastCall' = Call("removeItem", type, index)

NextHandlers == CallAddItem \/ CallRemoveItem \/ RecomputeEffect

SpecHandlers == InitHandlers /\ [][NextHandlers]_vars

(***************************************************************************)
(* Saving as a function of the page's state: SpecSave starts from the       *)
(* rendered form with any lists of at most MaxItems entries and any         *)
(* targetPatients of the value sets above, and saves.                       *)
(***************************************************************************)
InitSave ==
    /\ campId = "camp7"
    /\ currentUserId = "user3"
    /\ campDetails = Camp(DateStr(1, 0), DateStr(3, 0))
    /\ targetPatients \in {JsOr(v, Num(0)) : v \in PatientValues} \cup {Str(<<>>)}
    /\ \E a \in 0..MaxItems : \E b \in 0..(MaxItems - a) :
          \E c \in 0..(MaxItems - a - b) :
             /\ staffList \in [1..a -> StaffEntries]
             /\ medicineList \in [1..b -> MedicineEntries]
             /\ equipmentList \in [1..c -> EquipmentEntries]
    /\ newStaff = BlankStaff
    /\ newMedicine = BlankMedicine
    /\ newEquipment = BlankEquipment
    /\ loading = FALSE
    /\ error = ""
    /\ saveMessage = ""
    /\ estimatedCost = [min |-> 0, max |-> 0]
    /\ fetchPc = "done"
    /\ effectCause = "inputs"
    /\ savePc = "idle"
    /\ saveRequest = NoRequest
    /\ saveTimers = 0
    /\ lastCall = NoCall
    /\ DashboardUnmounted
    /\ OffScreen

NextSave ==
    \/ RecomputeEffect
    \/ handleSaveResources /\ lastCall' = Call("handleSaveResources", "", 0)
    \/ SaveOk /\ UNCHANGED persisted
    \/ SaveFailed
    \/ SaveMessageTimeout

SpecSave == InitSave /\ [][NextSave]_vars

(***************************************************************************)
(* SpecPersist: the resource page together with the server's copy of the    *)
(* camp's resources.  The server is not part of these sources; it is        *)
(* written down from the specification: a successful POST replaces the copy *)
(* the host keeps for the camp with the body it received, and a GET answers *)
(* with the copy the host keeps.  The page starts as in SpecSave, saves,    *)
(* and is mounted again, which loads the resources.                         *)
(***************************************************************************)
\* The host stores the body of the POST it answers with ok.
ServerStores(host) == persisted' = [persisted EXCEPT ![host] = saveRequest]

\* What the host answers a GET of the camp's resources with.
ServerCopy(host) ==
    IF persisted[host].sent
    THEN [targetPatients |-> persisted[host].targetPatients,
          staffList |-> List(persisted[host].staffList),
          medicineList |-> List(persisted[host].medicineList),
          equipmentList |-> List(persisted[host].equipmentList)]
    ELSE [targetPatients |-> Undef, staffList |-> NoList,
          medicineList |-> NoList, equipmentList |-> NoList]

\* App renders the page again after the user has left it (App.jsx lines
\* 126-128): a new instance with the initial state of lines 9-19, whose
\* effect calls fetchCampData.
Remount ==
    /\ fetchPc = "done" /\ savePc = "idle" /\ EffectsFlushed
    /\ campDetails' = NoCamp
    /\ targetPatients' = Num(0)
    /\ staffList' = <<>>
    /\ medicineList' = <<>>
    /\ equipmentList' = <<>>
    /\ newStaff' = BlankStaff
    /\ newMedicine' = BlankMedicine
    /\ newEquipment' = BlankEquipment
    /\ loading' = TRUE
    /\ error' = ""
    /\ saveMessage' = ""
    /\ estimatedCost' = [min |-> 0, max |-> 0]
    /\ fetchPc' = "mount"
    /\ effectCause' = "inputs"
    /\ saveTimers' = 0
    /\ lastCall' = NoCall
    /\ UNCHANGED <<campId, currentUserId, savePc, saveRequest, persisted,
                   offPageVars>>

InitPersist == InitSave

NextPersist ==
    \/ RecomputeEffect
    \/ handleSaveResources /\ lastCall' = Call("handleSaveResources", "", 0)
    \/ SaveOk /\ ServerStores(SaveHost)
    \/ SaveFailed
    \/ SaveMessageTimeout
    \/ Remount
    \/ FetchStart
    \/ FetchCampDetailsOk
    \/ FetchFailed
    \/ FetchResourcesFrom({ServerCopy(LoadHost)})
          /\ lastCall' = Call("fetchCampData", "", 0)

SpecPersist == InitPersist /\ [][NextPersist]_vars

(***************************************************************************)
(* OrganizerDashboard (src/src/components/OrganizerDashboard.jsx): the      *)
(* heatmap of a health indicator over a state.  The effect of lines 85-141  *)
(* runs fetchHeatmapData for the selection of its render; the response is a *)
(* GeoJSON feature collection, which lines 112-127 turn into the samples    *)
(* [latitude, longitude, intensity] of heatmapData.                         *)
(***************************************************************************)
\* src/data/healthIndicators.js; an entry without `invert` has it undefined,
\* which line 121 reads as false.
selectableIndicators ==
    << [key |-> "2", label |-> "Population below age 15 years (%)", invert |-> FALSE],
       [key |-> "9", label |-> "Improved sanitation facility (%)", invert |-> TRUE],
       [key |-> "12", label |-> "Health insurance coverage (%)", invert |-> TRUE],
       [key |-> "16", label |-> "Women married before age 18 (%)", invert |-> FALSE],
       [key |-> "18", label |-> "Teenage mothers/pregnancy (%)", invert |-> FALSE],
       [key |-> "49", label |-> "Children 12-23m fully vaccinated (%)", invert |-> TRUE],
       [key |-> "73", label |-> "Children under 5 stunted (%)", invert |-> FALSE],
       [key |-> "74", label |-> "Children under 5 wasted (%)", invert |-> FALSE],
       [key |-> "76", label |-> "Children under 5 underweight (%)", invert |-> FALSE],
       [key |-> "81", label |-> "Children 6-59m anaemic (%)", invert |-> FALSE],
       [key |-> "84", label |-> "Women 15-49y anaemic (%)", invert |-> FALSE],
       [key |-> "88", label |-> "Women: High/v.high blood sugar/meds (%)", invert |-> FALSE],
       [key |-> "91", label |-> "Men: High/v.high blood sugar/meds (%)", invert |-> FALSE],
       [key |-> "94", label |-> "Women: Elevated BP/meds (%)", invert |-> FALSE],
       [key |-> "97", label |-> "Men: Elevated BP/meds (%)", invert |-> FALSE] >>

\* selectableIndicators.find(ind => ind.key === key); undefined is NoIndicator.
NoIndicator == [found |-> FALSE, key |-> "", label |-> "", invert |-> FALSE]
FoundIndicator(ind) ==
    [found |-> TRUE, key |-> ind.key, label |-> ind.label, invert |-> ind.invert]
FindIndicator(key) ==
    LET hits == {j \in 1..Len(selectableIndicators) :
                    selectableIndicators[j].key = key}
    IN  IF hits = {} THEN NoIndicator
        ELSE FoundIndicator(selectableIndicators[
                 CHOOSE j \in hits : \A k \in hits : j <= k])

\* A feature of the response.  geometry and properties can be missing (or
\* null), and so can geometry.coordinates and properties.value; coordinates
\* is an array of any length of JavaScript values.
NoGeometry == [present |-> FALSE, coordinates |-> NoList]
Geometry(coordinates) == [present |-> TRUE, coordinates |-> coordinates]
NoProperties == [present |-> FALSE, value |-> Undef]
Properties(value) == [present |-> TRUE, value |-> value]
Feature(geometry, properties) == [geometry |-> geometry, properties |-> properties]

\* The numbers of the heatmap: parseFloat also reads the text Infinity, and
\* JSON.parse reads a number too large for a double (1e999) as Infinity.
NotANumber == [k |-> "nan", h |-> 0]
Finite(h) == [k |-> "fin", h |-> h]
Infinite(sgn) == [k |-> "inf", h |-> sgn]
InfinityText == <<"I", "n", "f", "i", "n", "i", "t", "y">>

HasPrefix(s, prefix) ==
    Len(s) >= Len(prefix) /\ SubSeq(s, 1, Len(prefix)) = prefix

\* parseFloat(feature.properties.value)
ParseFloatValue(v) ==
    LET s0 == IF v.t = "str" THEN TrimStart(v.s) ELSE <<>>
        signed == s0 # <<>> /\ Head(s0) \in {"-", "+"}
        sgn == IF signed /\ Head(s0) = "-" THEN 0 - 1 ELSE 1
        s1 == IF signed THEN Tail(s0) ELSE s0
        x == ParseFloat(v)
    IN  IF HasPrefix(s1, InfinityText) THEN Infinite(sgn)
        ELSE IF x.nan THEN NotANumber
        ELSE Finite(x.h)

\* The predicate of the filter, lines 114-118.  An array is truthy whatever
\* its length.
Retained(feature) ==
    /\ feature.geometry.present
    /\ feature.geometry.coordinates.present
    /\ feature.properties.present
    /\ feature.properties.value.t # "undef"
    /\ ParseFloatValue(feature.properties.value).k # "nan"

\* 100 - intensity, in halves.
HundredMinus(x) ==
    CASE x.k = "fin" -> Finite(200 - x.h)
      [] x.k = "inf" -> Infinite(0 - x.h)
      [] OTHER -> NotANumber

\* An intensity that is not clamped at 0.
MathMaxZeroMissing(x) == x

\* Math.max(0, intensity)
MathMaxZero(x) ==
    CASE x.k = "fin" -> Finite(IF x.h < 0 THEN 0 ELSE x.h)
      [] x.k = "inf" -> IF x.h < 0 THEN Finite(0) ELSE x
      [] OTHER -> NotANumber

\* Lines 120-124.
Intensity(feature, indicatorDetail) ==
    LET intensity == ParseFloatValue(feature.properties.value)
    IN  IF indicatorDetail.found /\ indicatorDetail.invert
        THEN MathMaxZero(HundredMinus(intensity))
        ELSE intensity

\* array[index], index counted from 0: undefined past the end.
At(items, index) == IF index < Len(items) THEN items[index + 1] ELSE Undef

\* A sample that keeps the order of the source's coordinates.
SampleSourceOrder(feature, indicatorDetail) ==
    << At(feature.geometry.coordinates.items, 0),
       At(feature.geometry.coordinates.items, 1),
       Intensity(feature, indicatorDetail) >>

\* Line 125.
Sample(feature, indicatorDetail) ==
    << At(feature.geometry.coordinates.items, 1),
       At(feature.geometry.coordinates.items, 0),
       Intensity(feature, indicatorDetail) >>

\* A projection that emits the retained features last to first.
RECURSIVE ProjectReversed(_, _)
ProjectReversed(features, indicatorDetail) ==
    IF features = <<>> THEN <<>>
    ELSE ProjectReversed(Tail(features), indicatorDetail)
         \o (IF Retained(Head(features))
             THEN <<Sample(Head(features), indicatorDetail)>> ELSE <<>>)

\* features.filter(...).map(...), lines 113-126.
RECURSIVE Project(_, _)
Project(features, indicatorDetail) ==
    IF features = <<>> THEN <<>>
    ELSE (IF Retained(Head(features))
          THEN <<Sample(Head(features), indicatorDetail)>> ELSE <<>>)
         \o Project(Tail(features), indicatorDetail)

\* HeatmapLayer's validData (src/unnamed/part_000, lines 55-62): of the data
\* it is handed, the layer draws the points made of three numbers, none NaN.
validData(data) ==
    LET IsValid(point) ==
            /\ Len(point) = 3
            /\ point[1].t = "num" /\ point[2].t = "num"
            /\ point[3].k # "nan"
    IN  SelectSeq(data, IsValid)

\* A response: a failure (the fetch rejects, or the status is not ok), or a
\* feature collection, whose metadata and features can be missing.
NoMetadata == [present |-> FALSE, full_indicator_name |-> ""]
Metadata(name) == [present |-> TRUE, full_indicator_name |-> name]
FailureResponse(message) ==
    [ok |-> FALSE, message |-> message, metadata |-> NoMetadata,
     features |-> NoList]
GeoJson(metadata, features) ==
    [ok |-> TRUE, message |-> "", metadata |-> metadata, features |-> features]

\* A name that ignores the dataset's metadata.
IndicatorNameLabelOnly(geoJsonData, indicatorDetail, shown) ==
    IF indicatorDetail.found THEN indicatorDetail.label ELSE shown

\* Lines 107-111: the name the dashboard shows after a response, `shown`
\* being the name it showed before.
IndicatorName(geoJsonData, indicatorDetail, shown) ==
    IF geoJsonData.metadata.present
       /\ geoJsonData.metadata.full_indicator_name # ""
    THEN geoJsonData.metadata.full_indicator_name
    ELSE IF indicatorDetail.found THEN indicatorDetail.label
    ELSE shown

\* Lines 112-131.
ProcessedData(geoJsonData, indicatorDetail) ==
    IF geoJsonData.features.present /\ Len(geoJsonData.features.items) > 0
    THEN Project(geoJsonData.features.items, indicatorDetail)
    ELSE <<>>

\* The bounds of the dashboard: at most MaxHeatmapFetches runs of
\* fetchHeatmapData await their response, and a response holds at most
\* MaxFeatures features.
MaxHeatmapFetches == 2
MaxFeatures == 2

\* The options of the two <select>s the model's user picks.
IndicatorChoices == {"2", "9"}
MapStateChoices == {"Andhra Pradesh", "Kerala"}

NoResolved == [resolved |-> FALSE]

\* The resource page is not on the screen while the dashboard is.
PageUnmounted ==
    /\ campId = ""
    /\ currentUserId = "user3"
    /\ campDetails = NoCamp
    /\ targetPatients = Num(0)
    /\ staffList = <<>>
    /\ medicineList = <<>>
    /\ equipmentList = <<>>
    /\ newStaff = BlankStaff
    /\ newMedicine = BlankMedicine
    /\ newEquipment = BlankEquipment
    /\ loading = FALSE
    /\ error = ""
    /\ saveMessage = ""
    /\ estimatedCost = [min |-> 0, max |-> 0]
    /\ fetchPc = "unmounted"
    /\ effectCause = "idle"
    /\ savePc = "idle"
    /\ saveRequest = NoRequest
    /\ saveTimers = 0
    /\ lastCall = NoCall

\* useState's initial values (lines 12-18); the effect runs after the mount.
InitDashboard ==
    /\ PageUnmounted
    /\ OffScreen
    /\ heatmapData = <<>>
    /\ loadingHeatmap = FALSE
    /\ errorHeatmap = ""
    /\ selectedIndicator = selectableIndicators[1].key
    /\ currentIndicatorDetails = FoundIndicator(selectableIndicators[1])
    /\ currentIndicatorName = ""
    /\ selectedMapState = "Andhra Pradesh"
    /\ heatmapEffect = TRUE
    /\ heatmapFetches = <<>>
    /\ heatmapResolved = NoResolved

\* The effect: fetchHeatmapData up to its first await (lines 87-95).
RunHeatmapEffect ==
    /\ heatmapEffect
    /\ heatmapEffect' = FALSE
    /\ IF selectedIndicator = "" \/ selectedMapState = ""
       THEN UNCHANGED <<loadingHeatmap, errorHeatmap, currentIndicatorName,
                        heatmapData, heatmapFetches>>
       ELSE /\ loadingHeatmap' = TRUE
            /\ errorHeatmap' = ""
            /\ currentIndicatorName' = ""
            /\ heatmapData' = <<>>
            /\ heatmapFetches' =
                  Append(heatmapFetches, [indicator |-> selectedIndicator,
                                          mapState |-> selectedMapState])
    /\ UNCHANGED <<selectedIndicator, selectedMapState, currentIndicatorDetails,
                   heatmapResolved, offDashboardVars>>

\* handleIndicatorChange (line 143); the effect is scheduled when the
\* selection differs.
handleIndicatorChange ==
    /\ ~heatmapEffect
    /\ Len(heatmapFetches) < MaxHeatmapFetches
    /\ \E key \in IndicatorChoices :
          /\ selectedIndicator' = key
          /\ heatmapEffect' = (key # selectedIndicator)
    /\ UNCHANGED <<heatmapData, loadingHeatmap, errorHeatmap,
                   currentIndicatorDetails, currentIndicatorName,
                   selectedMapState, heatmapFetches, heatmapResolved,
                   offDashboardVars>>

\* handleMapStateChange (lines 144-148).
handleMapStateChange ==
    /\ ~heatmapEffect
    /\ Len(heatmapFetches) < MaxHeatmapFetches
    /\ \E newStateValue \in MapStateChoices :
          /\ selectedMapState' = newStateValue
          /\ heatmapEffect' = (newStateValue # selectedMapState)
    /\ UNCHANGED <<heatmapData, loadingHeatmap, errorHeatmap,
                   currentIndicatorDetails, currentIndicatorName,
                   selectedIndicator, heatmapFetches, heatmapResolved,
                   offDashboardVars>>

\* The run that awaits at position i of heatmapFetches receives a feature
\* collection: lines 104-131 and 137.
HeatmapFetchOk(responses) ==
    /\ ~heatmapEffect
    /\ \E i \in 1..Len(heatmapFetches) : \E geoJsonData \in responses :
          LET run == heatmapFetches[i]
              indicatorDetail == FindIndicator(run.indicator)
          IN  /\ currentIndicatorDetails' = indicatorDetail
              /\ currentIndicatorName' =
                    IndicatorName(geoJsonData, indicatorDetail, currentIndicatorName)
              /\ heatmapData' = ProcessedData(geoJsonData, indicatorDetail)
              /\ loadingHeatmap' = FALSE
              /\ heatmapFetches' = RemoveAt(heatmapFetches, i - 1)
              /\ heatmapResolved' = [resolved |-> TRUE, run |-> run,
                                     response |-> geoJsonData]
    /\ UNCHANGED <<errorHeatmap, selectedIndicator, selectedMapState,
                   heatmapEffect, offDashboardVars>>

\* What the try block throws: the Error of line 102, whose message is the
\* response's error field or names the status; the TypeError of a fetch that
\* rejects; or an error without a message.
ThrownMessages ==
    {"District data unavailable", "Failed to fetch heatmap data (Status: 500)",
     "Failed to fetch", ""}

\* An error message without the fallback.
ErrorMessageNoFallback(message) == message

\* err.message || "Could not load heatmap data." (line 134)
ErrorMessage(message) ==
    IF message # "" THEN message ELSE "Could not load heatmap data."

\* The run at position i fails: lines 100-103 and 132-138.
HeatmapFetchFailed ==
    /\ ~heatmapEffect
    /\ \E i \in 1..Len(heatmapFetches) : \E message \in ThrownMessages :
          /\ errorHeatmap' = ErrorMessage(message)
          /\ heatmapData' = <<>>
          /\ loadingHeatmap' = FALSE
          /\ heatmapFetches' = RemoveAt(heatmapFetches, i - 1)
          /\ heatmapResolved' = [resolved |-> TRUE, run |-> heatmapFetches[i],
                                 response |-> FailureResponse(message)]
    /\ UNCHANGED <<currentIndicatorDetails, currentIndicatorName,
                   selectedIndicator, selectedMapState, heatmapEffect,
                   offDashboardVars>>

\* What the right panel shows under the controls (lines 199-206).
LoadingShown == loadingHeatmap
ErrorShown == errorHeatmap # ""
HeatmapShown == ~loadingHeatmap /\ errorHeatmap = "" /\ Len(heatmapData) > 0
NoDataMessageShown == ~loadingHeatmap /\ errorHeatmap = "" /\ Len(heatmapData) = 0

\* The dashboard with its two selections and a few responses.
DashboardResponses ==
    { GeoJson(NoMetadata, List(<<>>)),
      GeoJson(Metadata("Improved sanitation facility (NFHS-5)"),
              List(<<Feature(Geometry(List(<<Num(159), Num(31)>>)),
                             Properties(Num(60)))>>)) }

NextDashboard ==
    \/ RunHeatmapEffect
    \/ handleIndicatorChange
    \/ handleMapStateChange
    \/ HeatmapFetchOk(DashboardResponses)
    \/ HeatmapFetchFailed

SpecDashboard == InitDashboard /\ [][NextDashboard]_vars

(***************************************************************************)
(* The projection as a function of the response: SpecHeatmap mounts the     *)
(* dashboard, or picks another selection after a first fetch that failed,   *)
(* and answers the fetch with any feature collection of at most MaxFeatures *)
(* features of the set below.  Coordinates and values are numbers in halves *)
(* (159 is 79.5) or texts.                                                  *)
(***************************************************************************)
GoodPoint == Geometry(List(<<Num(159), Num(31)>>))

HeatFeatures ==
    { Feature(GoodPoint, Properties(Str(<<"4", "2", ".", "5">>))),
      Feature(Geometry(List(<<Num(160), Num(32)>>)), Properties(Num(60))),
      Feature(GoodPoint, Properties(Num(240))),
      Feature(GoodPoint, Properties(Num(0 - 10))),
      Feature(GoodPoint, Properties(Str(<<"N", "/", "A">>))),
      Feature(GoodPoint, Properties(Str(InfinityText))),
      Feature(GoodPoint, Properties(Undef)),
      Feature(GoodPoint, NoProperties),
      Feature(NoGeometry, Properties(Num(60))),
      Feature(Geometry(NoList), Properties(Num(60))),
      Feature(Geometry(List(<<Num(159)>>)), Properties(Num(60))),
      Feature(Geometry(List(<<Str(<<"e", "a", "s", "t">>), Str(<<"n", "o", "r", "t", "h">>)>>)),
              Properties(Num(60))),
      Feature(Geometry(List(<<Num(159), Num(190)>>)), Properties(Num(60))) }

FeatureLists == UNION {[1..n -> HeatFeatures] : n \in 0..MaxFeatures}

HeatmapResponses ==
    {GeoJson(metadata, features) :
        metadata \in {NoMetadata, Metadata(""),
                      Metadata("Improved sanitation facility (NFHS-5)")},
        features \in {NoList} \cup {List(q) : q \in FeatureLists}}

InitHeatmap ==
    /\ PageUnmounted
    /\ OffScreen
    /\ heatmapData = <<>>
    /\ loadingHeatmap = FALSE
    /\ currentIndicatorDetails = FoundIndicator(selectableIndicators[1])
    /\ currentIndicatorName = ""
    /\ selectedIndicator \in IndicatorChoices
    /\ selectedMapState \in MapStateChoices
    /\ errorHeatmap =
          IF selectedIndicator = selectableIndicators[1].key
             /\ selectedMapState = "Andhra Pradesh"
          THEN "" ELSE "Could not load heatmap data."
    /\ heatmapEffect = TRUE
    /\ heatmapFetches = <<>>
    /\ heatmapResolved = NoResolved

NextHeatmap ==
    \/ RunHeatmapEffect
    \/ HeatmapFetchOk(HeatmapResponses)
    \/ HeatmapFetchFailed

SpecHeatmap == InitHeatmap /\ [][NextHeatmap]_vars

\* The effect has run on the current inputs.
Computed == effectCause = "recompute"

Duration == calculateCampDurationDays(campDetails)

RECURSIVE SumSeq(_)
SumSeq(q) == IF q = <<>> THEN 0 ELSE q[1] + SumSeq(Tail(q))

\* The numbers the values of the model stand for, written out (in halves).
\* LeadingNumber: the decimal number a value is or its text starts with; 0 for
\* a text that starts with no number and for a missing value.
LeadingNumber(v) ==
    CASE v.t = "num" -> v.h
      [] v = Str(<<"1", ".", "5">>) -> 3
      [] v = Str(<<"-", "1">>) -> 0 - 2
      [] v = Str(<<"3", "k", "g">>) -> 6
      [] OTHER -> 0

\* LeadingInteger: the same with the fraction dropped; the numbers of the
\* model are not negative.
LeadingInteger(v) ==
    CASE v.t = "num" -> 2 * (v.h \div 2)
      [] v = Str(<<"1", ".", "5">>) -> 2
      [] v = Str(<<"-", "1">>) -> 0 - 2
      [] v = Str(<<"3", "k", "g">>) -> 6
      [] OTHER -> 0

\* round(base * percent / 100) in exact arithmetic, a tie going up; base in halves.
RoundPercent(baseHalves, percent) == (baseHalves * percent + 100) \div 200

BothDates ==
    campDetails.loaded /\ campDetails.start_date.k = "date"
                       /\ campDetails.end_date.k = "date"

\* end - start of the camp window in hours, when both dates are well-formed.
WindowHours ==
    (campDetails.end_date.day - campDetails.start_date.day) * 24
    + campDetails.end_date.hour - campDetails.start_date.hour

(***************************************************************************)
(* C1: for any lists, any targetPatients and any camp window the computed   *)
(* estimate has min <= max, and min and max are non-negative integers.      *)
(* Violated: a negative quantity or targetPatients gives a negative base,   *)
(* and then min > max and both are negative.                                *)
(***************************************************************************)
C1_EstimateOrderedNonNegative ==
    Computed => /\ estimatedCost.min <= estimatedCost.max
                /\ estimatedCost.min >= 0
                /\ estimatedCost.max >= 0

(***************************************************************************)
(* C2: the estimate is min = round(base * 0.85), max = round(base * 1.15)   *)
(* for base = staffCost + medicineCost + equipmentCost; one staff entry and *)
(* a 3-day window alone give 128 and 173.  Violated: the product base*1.15  *)
(* is computed in doubles, and for base = 50 it is 57.49999999999999, which *)
(* Math.round takes to 57 where round(57.5) is 58.                          *)
(***************************************************************************)
C2_BandIsRoundedPercent ==
    Computed =>
        LET base == totalBaseCost(staffList, medicineList, equipmentList,
                                  targetPatients, campDetails)
        IN  /\ estimatedCost.min = RoundPercent(base, 85)
            /\ estimatedCost.max = RoundPercent(base, 115)
            /\ (Len(staffList) = 1 /\ medicineList = <<>> /\ equipmentList = <<>>
                /\ Duration = 3)
               => estimatedCost = [min |-> 128, max |-> 173]

(***************************************************************************)
(* C3: once the estimate effect has run after the last change of the page's *)
(* state, the displayed estimatedCost is the estimate of the current lists, *)
(* targetPatients and camp window.                                          *)
(***************************************************************************)
C3_EstimateIsCurrent ==
    effectCause # "inputs" =>
        estimatedCost = calculateEstimatedCost(staffList, medicineList,
                            equipmentList, targetPatients, campDetails)

\* C3's case: after the loads, an added entry and an edit of targetPatients,
\* the effect has run and shows a non-zero estimate.
C3_Witness ==
    /\ effectCause = "recompute"
    /\ fetchPc = "done" /\ campDetails.loaded
    /\ targetPatients = Str(<<"1", ".", "5">>)
    /\ \E i \in 1..Len(medicineList) : medicineList[i].id = TempId
    /\ Len(staffList) = 1
    /\ estimatedCost.min > 0

\* The estimate of the current lists if the camp lasted d days.
EstimateWithDuration(d) ==
    EstimateBand(2 * (Len(staffList) * staffPerDay * d)
                 + medicineCost(medicineList, targetPatients)
                 + equipmentCost(equipmentList))

(***************************************************************************)
(* C4: for a window with well-formed dates and end >= start the duration is *)
(* ceil((end - start) in days) + 1, and the estimate is computed with it: 1 *)
(* when start = end, 5 from 2025-01-01 to 2025-01-05.                       *)
(***************************************************************************)
C4_DurationCountsBothEndpoints ==
    (Computed /\ BothDates /\ WindowHours >= 0) =>
        /\ Duration = CeilDiv(WindowHours, 24) + 1
        /\ estimatedCost = EstimateWithDuration(CeilDiv(WindowHours, 24) + 1)
        /\ (campDetails.start_date = campDetails.end_date) => Duration = 1
        /\ (campDetails = Camp(DateStr(1, 0), DateStr(5, 0))) => Duration = 5

\* C4's case: the window 2025-01-01 .. 2025-01-05, the estimate computed with
\* its 5 days of one staff entry.
C4_Witness ==
    /\ Computed
    /\ campDetails = Camp(DateStr(1, 0), DateStr(5, 0))
    /\ Len(staffList) = 1 /\ medicineList = <<>> /\ equipmentList = <<>>
    /\ estimatedCost = [min |-> 213, max |-> 288]

C6_DurationAtLeastOne ==
    Computed =>
        /\ Duration \in Nat /\ Duration >= 1
        /\ ~BothDates => /\ Duration = 1
                         /\ estimatedCost = EstimateWithDuration(1)

\* C6's case: camp details with a malformed start date, the estimate computed
\* with 1 day of one staff entry.
C6_Witness ==
    /\ Computed
    /\ campDetails = Camp(MalformedDate, DateStr(5, 0))
    /\ Len(staffList) = 1 /\ medicineList = <<>> /\ equipmentList = <<>>
    /\ estimatedCost = [min |-> 43, max |-> 57]

(***************************************************************************)
(* C7: every staff entry adds staffPerDay * durationDays to the base,       *)
(* whatever its fields: the estimate depends on the staff list only through *)
(* its length.                                                              *)
(***************************************************************************)
C7_StaffFlatRate ==
    Computed =>
        /\ staffCost(staffList, Duration) = 2 * (Len(staffList) * staffPerDay * Duration)
        /\ estimatedCost = EstimateWithDuration(Duration)

\* C7's case: two staff entries that differ in every field, over several days.
C7_Witness ==
    /\ Computed
    /\ Len(staffList) = 2
    /\ staffList[1].name # staffList[2].name
    /\ staffList[1].role # staffList[2].role
    /\ Duration = 5
    /\ medicineList = <<>> /\ equipmentList = <<>>
    /\ estimatedCost = [min |-> 425, max |-> 575]

(***************************************************************************)
(* C8, as claimed: the medicine part is the sum over the medicine entries   *)
(* of quantityPerPatient * targetPatients * medicinePerUnit, a non-numeric  *)
(* or missing value counting as 0.  Violated: targetPatients is read with   *)
(* parseInt, so a targetPatients of 1.5 counts as 1.                        *)
(***************************************************************************)
C8_MedicineIsProductOfValues ==
    Computed =>
        estimatedCost =
            EstimateBand(
                staffCost(staffList, Duration)
                + SumSeq([i \in 1..Len(medicineList) |->
                            (LeadingNumber(medicineList[i].quantityPerPatient)
                             * LeadingNumber(targetPatients) * medicinePerUnit) \div 2])
                + equipmentCost(equipmentList))

(***************************************************************************)
(* C8, amended: the medicine part is the sum over the medicine entries of   *)
(* q * n * medicinePerUnit, where q is the decimal number the entry's       *)
(* quantityPerPatient starts with and n the integer targetPatients starts   *)
(* with (a fraction of targetPatients is dropped), and a value that starts  *)
(* with no number, or is missing, counts as 0.                              *)
(***************************************************************************)
C8_MedicineIsProductOfParsedValues ==
    Computed =>
        estimatedCost =
            EstimateBand(
                staffCost(staffList, Duration)
                + SumSeq([i \in 1..Len(medicineList) |->
                            LeadingNumber(medicineList[i].quantityPerPatient)
                            * (LeadingInteger(targetPatients) \div 2)
                            * medicinePerUnit])
                + equipmentCost(equipmentList))

\* C8's case: a medicine entry without quantityPerPatient beside one with
\* "1.5", and targetPatients 1.5: 1.5 * 1 * 2 = 3.
C8_Witness ==
    /\ Computed
    /\ Len(medicineList) = 2
    /\ medicineList[1].quantityPerPatient = Undef
    /\ medicineList[2].quantityPerPatient = Str(<<"1", ".", "5">>)
    /\ targetPatients = Num(3)
    /\ staffList = <<>> /\ equipmentList = <<>>
    /\ estimatedCost = [min |-> 3, max |-> 3]

(***************************************************************************)
(* C9, as claimed: the equipment part is the sum over the equipment entries *)
(* of quantity * equipmentPerItem, a non-numeric quantity counting as 0.    *)
(* Violated: quantity is read with parseInt, so a quantity of 1.5 counts as *)
(* 1.                                                                       *)
(***************************************************************************)
C9_EquipmentIsProductOfValues ==
    Computed =>
        estimatedCost =
            EstimateBand(
                staffCost(staffList, Duration)
                + medicineCost(medicineList, targetPatients)
                + SumSeq([i \in 1..Len(equipmentList) |->
                            LeadingNumber(equipmentList[i].quantity)
                            * equipmentPerItem]))

(***************************************************************************)
(* C9, amended: the equipment part is the sum over the equipment entries of *)
(* n * equipmentPerItem, where n is the integer the entry's quantity starts *)
(* with (a fraction is dropped), and a quantity that starts with no         *)
(* integer, or is missing, counts as 0.                                     *)
(***************************************************************************)
C9_EquipmentIsProductOfParsedValues ==
    Computed =>
        estimatedCost =
            EstimateBand(
                staffCost(staffList, Duration)
                + medicineCost(medicineList, targetPatients)
                + SumSeq([i \in 1..Len(equipmentList) |->
                            LeadingInteger(equipmentList[i].quantity)
                            * equipmentPerItem]))

\* C9's case: an equipment entry with a non-numeric quantity beside one with
\* "1.5": 0 + 1 * 75.
C9_Witness ==
    /\ Computed
    /\ Len(equipmentList) = 2
    /\ equipmentList[1].quantity = Str(<<"a", "b", "c">>)
    /\ equipmentList[2].quantity = Str(<<"1", ".", "5">>)
    /\ staffList = <<>> /\ medicineList = <<>>
    /\ estimatedCost = [min |-> 64, max |-> 86]

(***************************************************************************)
(* C10: with the three lists empty and targetPatients = 0 the estimate is   *)
(* {min: 0, max: 0}, for every camp window.                                 *)
(***************************************************************************)
C10_EmptyListsCostNothing ==
    (Computed /\ staffList = <<>> /\ medicineList = <<>> /\ equipmentList = <<>>
     /\ targetPatients = Num(0))
        => estimatedCost = [min |-> 0, max |-> 0]

\* C10's case: nothing listed for a camp of several days.
C10_Witness ==
    /\ Computed
    /\ staffList = <<>> /\ medicineList = <<>> /\ equipmentList = <<>>
    /\ targetPatients = Num(0)
    /\ BothDates /\ Duration = 5
    /\ estimatedCost = [min |-> 0, max |-> 0]

(***************************************************************************)
(* C11: addItem(type) called while the draft of that type has an empty name *)
(* leaves the three lists and the three drafts unchanged and sets no error; *)
(* called while the name is non-empty it appends exactly one entry, the     *)
(* draft's fields plus a temporary identifier, at the end of the list of    *)
(* that type, and leaves the other two lists unchanged.                     *)
(***************************************************************************)
ListBefore(call, type) ==
    CASE type = "staff" -> call.staffList
      [] type = "medicine" -> call.medicineList
      [] type = "equipment" -> call.equipmentList

DraftBefore(call, type) ==
    CASE type = "staff" -> call.newStaff
      [] type = "medicine" -> call.newMedicine
      [] type = "equipment" -> call.newEquipment

IsDraftWithTempId(entry, draft) ==
    /\ DOMAIN entry = DOMAIN draft \cup {"id"}
    /\ \A f \in DOMAIN draft : entry[f] = draft[f]
    /\ entry.id # ""

C11_AddItemAppendsNamedDraft ==
    lastCall.op = "addItem" =>
        LET type == lastCall.type
            before == ListBefore(lastCall, type)
            draft == DraftBefore(lastCall, type)
            now == ListOf(type)
        IN  /\ error = lastCall.error
            /\ \A other \in ItemTypes \ {type} :
                   ListOf(other) = ListBefore(lastCall, other)
            /\ IF draft.name = ""
               THEN /\ now = before
                    /\ newStaff = lastCall.newStaff
                    /\ newMedicine = lastCall.newMedicine
                    /\ newEquipment = lastCall.newEquipment
               ELSE /\ Len(now) = Len(before) + 1
                    /\ SubSeq(now, 1, Len(before)) = before
                    /\ IsDraftWithTempId(now[Len(now)], draft)

\* addItem('equipment') was called with a named draft while the staff list
\* held an entry.
C11_Witness ==
    /\ lastCall.op = "addItem" /\ lastCall.type = "equipment"
    /\ lastCall.newEquipment.name # ""
    /\ Len(lastCall.equipmentList) = 0 /\ Len(lastCall.staffList) = 1
    /\ Len(equipmentList) = 1
    /\ equipmentList[1].id = TempId
    /\ newEquipment = BlankEquipment

(***************************************************************************)
(* C12: removeItem(type, index) with 0 <= index < length removes exactly    *)
(* the element at that index of the list of that type and keeps the others  *)
(* in their order; with an index out of range the list is unchanged; the    *)
(* other two lists are unchanged in both cases.                             *)
(***************************************************************************)
C12_RemoveItemRemovesOne ==
    lastCall.op = "removeItem" =>
        LET type == lastCall.type
            i == lastCall.index
            before == ListBefore(lastCall, type)
            now == ListOf(type)
        IN  /\ \A other \in ItemTypes \ {type} :
                   ListOf(other) = ListBefore(lastCall, other)
            /\ IF i < Len(before)
               THEN /\ Len(now) = Len(before) - 1
                    /\ \A j \in 1..Len(now) :
                           now[j] = before[IF j <= i THEN j ELSE j + 1]
               ELSE now = before

\* removeItem('medicine', 2) was called on a medicine list of two entries:
\* the index is out of range.
C12_Witness ==
    /\ lastCall.op = "removeItem" /\ lastCall.type = "medicine"
    /\ lastCall.index = Len(lastCall.medicineList)
    /\ Len(lastCall.medicineList) = 2
    /\ medicineList = lastCall.medicineList

(***************************************************************************)
(* C13: the payload handleSaveResources sends holds, for each list, one     *)
(* entry per entry of the page in the same order, without the id and with   *)
(* every other field kept; quantityPerPatient and quantity are the numbers  *)
(* the fields hold or start with, targetPatients the integer it holds or    *)
(* starts with, and a value that is no number is 0.                         *)
(* Violated: quantity is read with parseInt, so a quantity of 1.5 is sent   *)
(* as 1.                                                                    *)
(***************************************************************************)
KeepsOtherFields(sent, entry, coerced) ==
    /\ DOMAIN sent = DOMAIN entry \ {"id"}
    /\ \A f \in DOMAIN sent \ coerced : sent[f] = entry[f]

SameEntries(sentList, list, coerced) ==
    /\ Len(sentList) = Len(list)
    /\ \A j \in 1..Len(list) : KeepsOtherFields(sentList[j], list[j], coerced)

C13_PayloadCoercesToNumbers ==
    savePc = "posting" =>
        /\ saveRequest.targetPatients = Num(LeadingInteger(targetPatients))
        /\ SameEntries(saveRequest.staffList, staffList, {})
        /\ SameEntries(saveRequest.medicineList, medicineList, {"quantityPerPatient"})
        /\ SameEntries(saveRequest.equipmentList, equipmentList, {"quantity"})
        /\ \A j \in 1..Len(medicineList) :
               saveRequest.medicineList[j].quantityPerPatient
                  = Num(LeadingNumber(medicineList[j].quantityPerPatient))
        /\ \A j \in 1..Len(equipmentList) :
               saveRequest.equipmentList[j].quantity
                  = Num(LeadingNumber(equipmentList[j].quantity))

(***************************************************************************)
(* C13, as the code has it: the same, with quantity sent as the integer the *)
(* field holds or starts with (its fraction is dropped, as targetPatients'  *)
(* is); quantityPerPatient keeps its fraction.                              *)
(***************************************************************************)
C13_PayloadCoercesQuantityToInteger ==
    savePc = "posting" =>
        /\ saveRequest.targetPatients = Num(LeadingInteger(targetPatients))
        /\ SameEntries(saveRequest.staffList, staffList, {})
        /\ SameEntries(saveRequest.medicineList, medicineList, {"quantityPerPatient"})
        /\ SameEntries(saveRequest.equipmentList, equipmentList, {"quantity"})
        /\ \A j \in 1..Len(medicineList) :
               saveRequest.medicineList[j].quantityPerPatient
                  = Num(LeadingNumber(medicineList[j].quantityPerPatient))
        /\ \A j \in 1..Len(equipmentList) :
               saveRequest.equipmentList[j].quantity
                  = Num(LeadingInteger(equipmentList[j].quantity))

\* A save is in flight for a staff entry with a temporary id and an equipment
\* entry whose quantity is the text 1.5, with targetPatients a text.
C13_Witness ==
    /\ savePc = "posting"
    /\ Len(staffList) = 1 /\ staffList[1].id = TempId
    /\ Len(equipmentList) = 1
    /\ equipmentList[1].quantity = Str(<<"1", ".", "5">>)
    /\ saveRequest.equipmentList[1].quantity = Num(2)
    /\ targetPatients = Str(<<"a", "b", "c">>)
    /\ saveRequest.targetPatients = Num(0)

(***************************************************************************)
(* The heatmap claims are read off the state a successful fetch leaves:     *)
(* the response it received, the indicator it was started for, and          *)
(* heatmapData.                                                             *)
(***************************************************************************)
ResolvedOk == heatmapResolved.resolved /\ heatmapResolved.response.ok

SourceFeatures == ListOr(heatmapResolved.response.features)

\* The features the filter lets through, in the order of the response.
Kept == SelectSeq(SourceFeatures, Retained)

\* The catalog's entries with invert: true, and the labels of the two
\* indicators the model selects.
InvertedKeys == {"9", "12", "49"}
RunInverts == heatmapResolved.run.indicator \in InvertedKeys
CatalogLabel(key) ==
    CASE key = "2" -> "Population below age 15 years (%)"
      [] key = "9" -> "Improved sanitation facility (%)"

\* The values of the model that are, or parse to, a finite number, and that
\* number in halves.
ValueIsFiniteNumber(feature) ==
    /\ feature.properties.present
    /\ \/ feature.properties.value.t = "num"
       \/ feature.properties.value = Str(<<"4", "2", ".", "5">>)
RawValue(feature) ==
    IF feature.properties.value.t = "num" THEN feature.properties.value.h
    ELSE 85

HasNumericPair(feature) ==
    /\ feature.geometry.present
    /\ feature.geometry.coordinates.present
    /\ Len(feature.geometry.coordinates.items) = 2
    /\ \A j \in 1..2 : feature.geometry.coordinates.items[j].t = "num"

(***************************************************************************)
(* C14: a feature is kept only if its properties.value parses to a finite   *)
(* number ("N/A", null and a missing value are dropped), and a feature with *)
(* a numeric coordinate pair and the value "42.5" is kept: the number of    *)
(* samples lies between the number of features that are well-formed in both *)
(* respects and the number of features with a finite value.                 *)
(* Violated: the filter tests !isNaN, and parseFloat reads the value        *)
(* Infinity as a number that is not NaN.                                    *)
(***************************************************************************)
C14_KeepsOnlyFiniteValues ==
    ResolvedOk =>
        LET finite == {j \in 1..Len(SourceFeatures) :
                          ValueIsFiniteNumber(SourceFeatures[j])}
            wellFormed == {j \in finite : HasNumericPair(SourceFeatures[j])}
        IN  /\ Cardinality(wellFormed) <= Len(heatmapData)
            /\ Len(heatmapData) <= Cardinality(finite)

(***************************************************************************)
(* C15: every emitted sample comes from a feature with a coordinate pair of *)
(* two finite numbers: the latitude and the longitude of every sample of    *)
(* heatmapData are numbers, or texts that parse to numbers.                 *)
(* Violated: the filter only tests that geometry.coordinates exists; an     *)
(* empty, short or non-numeric array passes.  Such a sample stays in        *)
(* heatmapData, which is then not empty; only validData(heatmapData), what  *)
(* the layer draws, is free of it.                                          *)
(***************************************************************************)
C15_SamplesHaveNumericCoordinates ==
    ResolvedOk =>
        \A j \in 1..Len(heatmapData) :
            /\ ~ParseFloat(heatmapData[j][1]).nan
            /\ ~ParseFloat(heatmapData[j][2]).nan

(***************************************************************************)
(* C16: the sample of each retained feature with a finite raw value v has   *)
(* the intensity max(0, 100 - v) when the indicator of the fetch has        *)
(* invert = true, and v otherwise; inverted, 30 gives 70 and 120 gives 0.   *)
(***************************************************************************)
C16_IntensityInvertsAndClamps ==
    ResolvedOk =>
        /\ Len(heatmapData) = Len(Kept)
        /\ \A j \in 1..Len(Kept) :
              ValueIsFiniteNumber(Kept[j]) =>
                 LET v == RawValue(Kept[j])
                 IN  heatmapData[j][3] =
                        IF RunInverts
                        THEN Finite(IF 200 - v > 0 THEN 200 - v ELSE 0)
                        ELSE Finite(v)

\* An inverted indicator, a response with the values 30 and 120: 70 and 0.
C16_Witness ==
    /\ ResolvedOk /\ RunInverts
    /\ Len(heatmapData) = 2
    /\ Kept[1].properties.value = Num(60) /\ heatmapData[1][3] = Finite(140)
    /\ Kept[2].properties.value = Num(240) /\ heatmapData[2][3] = Finite(0)

(***************************************************************************)
(* C17: every sample of heatmapData whose latitude and longitude are        *)
(* numbers has its latitude in [-90, 90], its longitude in [-180, 180] and  *)
(* a finite intensity >= 0.                                                 *)
(* Violated: neither the coordinates nor a value that is not inverted are   *)
(* checked against a range.                                                 *)
(***************************************************************************)
C17_SamplesInRange ==
    ResolvedOk =>
        \A j \in 1..Len(heatmapData) :
            LET lat == heatmapData[j][1]
                lng == heatmapData[j][2]
                intensity == heatmapData[j][3]
            IN  (lat.t = "num" /\ lng.t = "num") =>
                   /\ 0 - 180 <= lat.h /\ lat.h <= 180
                   /\ 0 - 360 <= lng.h /\ lng.h <= 360
                   /\ intensity.k = "fin" /\ intensity.h >= 0

(***************************************************************************)
(* C18: the sample of each retained feature is (coordinates[1],             *)
(* coordinates[0], intensity): the source's (longitude, latitude) comes out *)
(* as (latitude, longitude).                                                *)
(***************************************************************************)
C18_EmitsLatitudeFirst ==
    ResolvedOk =>
        /\ Len(heatmapData) = Len(Kept)
        /\ \A j \in 1..Len(Kept) :
              LET coordinates == Kept[j].geometry.coordinates.items
              IN  Len(coordinates) >= 2 =>
                     /\ heatmapData[j][1] = coordinates[2]
                     /\ heatmapData[j][2] = coordinates[1]

\* The source pair (79.5, 15.5) is emitted as (15.5, 79.5).
C18_Witness ==
    /\ ResolvedOk
    /\ Len(heatmapData) = 1
    /\ Kept[1].geometry.coordinates.items = <<Num(159), Num(31)>>
    /\ heatmapData[1][1] = Num(31) /\ heatmapData[1][2] = Num(159)

(***************************************************************************)
(* C19: heatmapData after a successful fetch is a function of the response  *)
(* and the indicator alone, whatever state the dashboard was in: one sample *)
(* per retained feature, in the order of the response.                      *)
(***************************************************************************)
C19_ProjectionIsAFunctionInSourceOrder ==
    ResolvedOk =>
        heatmapData =
            [j \in 1..Len(Kept) |->
                Sample(Kept[j], FindIndicator(heatmapResolved.run.indicator))]

\* A response of two retained features with different samples, received by
\* a dashboard that showed an error before.
C19_Witness ==
    /\ ResolvedOk
    /\ Len(SourceFeatures) = 2 /\ Len(heatmapData) = 2
    /\ heatmapData[1] # heatmapData[2]
    /\ selectedMapState = "Kerala"

(***************************************************************************)
(* C20: after a successful fetch the displayed name is the response's       *)
(* metadata.full_indicator_name when the response has one (a non-empty      *)
(* one), and otherwise the catalog's label of the indicator the fetch was   *)
(* made for.                                                                *)
(***************************************************************************)
C20_NameFromMetadataElseLabel ==
    ResolvedOk =>
        LET metadata == heatmapResolved.response.metadata
        IN  currentIndicatorName =
               IF metadata.present /\ metadata.full_indicator_name # ""
               THEN metadata.full_indicator_name
               ELSE CatalogLabel(heatmapResolved.run.indicator)

\* A response without metadata for indicator 9: the catalog's label is shown.
C20_Witness ==
    /\ ResolvedOk
    /\ ~heatmapResolved.response.metadata.present
    /\ heatmapResolved.run.indicator = "9"
    /\ currentIndicatorName = "Improved sanitation facility (%)"

(***************************************************************************)
(* C21: a successful response whose feature collection is empty, has no     *)
(* features field or holds only malformed features (no numeric coordinate   *)
(* pair, or no finite value) leaves heatmapData empty and no error set, and *)
(* the dashboard shows its "No data points" message.                        *)
(* Violated: a feature whose coordinates array is short or not numeric      *)
(* passes the filter, heatmapData is not empty and the map is rendered.     *)
(***************************************************************************)
C21_MalformedCollectionShowsNoData ==
    (/\ ResolvedOk
     /\ \A j \in 1..Len(SourceFeatures) :
            ~(HasNumericPair(SourceFeatures[j])
              /\ ValueIsFiniteNumber(SourceFeatures[j])))
    => /\ heatmapData = <<>>
       /\ errorHeatmap = ""
       /\ NoDataMessageShown

(***************************************************************************)
(* C22: when the fetch fails, by a rejected fetch or a status that is not   *)
(* ok, the dashboard shows a non-empty error message and heatmapData is     *)
(* empty.                                                                   *)
(***************************************************************************)
C22_FailedFetchShowsError ==
    (heatmapResolved.resolved /\ ~heatmapResolved.response.ok)
    => /\ errorHeatmap # ""
       /\ ErrorShown
       /\ heatmapData = <<>>
       /\ ~HeatmapShown /\ ~NoDataMessageShown

\* The fetch threw an error without a message: the fallback text is shown.
C22_Witness ==
    /\ heatmapResolved.resolved /\ ~heatmapResolved.response.ok
    /\ heatmapResolved.response.message = ""
    /\ errorHeatmap = "Could not load heatmap data."
    /\ heatmapData = <<>>

(***************************************************************************)
(* C24: once every fetch in flight has resolved, what the dashboard shows   *)
(* is the outcome of the fetch of the most recent selection: the last       *)
(* response applied is that of the current selection, and after a           *)
(* successful one currentIndicatorDetails is the selected indicator's.      *)
(* Violated: a response is applied whenever it arrives; nothing compares    *)
(* its selection with the current one.                                      *)
(***************************************************************************)
HeatmapQuiescent == ~heatmapEffect /\ heatmapFetches = <<>>

C24_LateResponseDiscarded ==
    (HeatmapQuiescent /\ heatmapResolved.resolved)
    => /\ heatmapResolved.run.indicator = selectedIndicator
       /\ heatmapResolved.run.mapState = selectedMapState
       /\ heatmapResolved.response.ok =>
              currentIndicatorDetails.key = selectedIndicator
       /\ heatmapResolved.response.ok => errorHeatmap = ""

(***************************************************************************)
(* C27: loadingHeatmap is true in every state in which a fetch started for  *)
(* the current selection has not resolved yet.                              *)
(* Violated: the finally block of a superseded fetch sets loadingHeatmap to *)
(* false while the fetch of the current selection is still in flight.       *)
(***************************************************************************)
C27_LoadingWhileCurrentFetchInFlight ==
    (\E i \in 1..Len(heatmapFetches) :
        /\ heatmapFetches[i].indicator = selectedIndicator
        /\ heatmapFetches[i].mapState = selectedMapState)
    => loadingHeatmap

(***************************************************************************)
(* C25: each input change triggers the estimate recomputation, which runs   *)
(* to completion and then stops: once the effect has run on the current     *)
(* inputs, no further recomputation or re-render is scheduled.              *)
(***************************************************************************)
C25_RecomputationStops == EffectsFlushed => effectCause = "idle"


(***************************************************************************)
(* C26: a failed save issues no automatic retry, leaves targetPatients and  *)
(* the three lists as they were when Save was invoked, and returns the page *)
(* to a state in which the user can invoke Save again: the form with its    *)
(* Save button is rendered and the button is enabled.                       *)
(***************************************************************************)
SaveHasFailed ==
    /\ lastCall.op = "handleSaveResources"
    /\ savePc = "idle"
    /\ error = "Failed to save resources"

C26_FailedSaveAllowsRetry ==
    SaveHasFailed =>
        /\ saveRequest = NoRequest
        /\ targetPatients = lastCall.targetPatients
        /\ staffList = lastCall.staffList
        /\ medicineList = lastCall.medicineList
        /\ equipmentList = lastCall.equipmentList
        /\ FormRendered /\ ~loading


(***************************************************************************)
(* C23: after a successful save of the camp's resources, the next load      *)
(* returns the saved targetPatients and the saved staff, medicine and       *)
(* equipment entries: the load reads the copy the save wrote.               *)
(***************************************************************************)
LoadedAfterSave ==
    /\ lastCall.op = "fetchCampData"
    /\ fetchPc = "done" /\ error = ""
    /\ persisted[SaveHost].sent

offAppVars == <<pageVars, saveVars, persisted, dashboardVars, chatVars>>

\* The users the login answers with; the last has a type App does not know.
LoginUsers ==
    { [id |-> 3, userType |-> "organizer"],
      [id |-> 4, userType |-> "local_organisation"],
      [id |-> 5, userType |-> "requester"],
      [id |-> 6, userType |-> "admin"] }

CampIds == {1, 2}

\* The page names Navbar, the pages and App itself pass to setCurrentPage.
Pages ==
    {"home", "about", "login", "signup", "organizerDashboard", "campDetails",
     "campResourceManagement", "connectWithAuthorities", "authorityDashboard",
     "patientDashboard", "viewCampReviews", "manageCampFollowUps"}

\* JSON.stringify and JSON.parse of a stored value; getItem of a missing key
\* is null, and `JSON.parse(null) || null` is null.
Stringify(value) == [stored |-> TRUE, text |-> value]
ParseOrNull(item, null) == IF item.stored THEN item.text ELSE null

IsType(user, type) == user # NoUser /\ user.userType = type

\* The guard of the five camp pages (lines 118, 127, 136, 166, 179).
CampPageAllowedWithoutCamp(user, camp) == IsType(user, "organizer")

CampPageAllowed(user, camp) == IsType(user, "organizer") /\ camp # NoCampId

\* Where a camp page sends a user it does not render for.
CampPageRedirect(user) ==
    IF user = NoUser THEN "login"
    ELSE IF user.userType = "organizer" THEN "organizerDashboard"
    ELSE "home"

\* Where a dashboard sends a user it does not render for (lines 114, 153,
\* 161).
DashboardRedirect(user) == IF user # NoUser THEN "home" ELSE "login"

Shown(component) == [component |-> component, redirect |-> ""]
Redirected(page) == [component |-> "null", redirect |-> page]

CampComponent(page) ==
    CASE page = "campDetails" -> "CampDetailsPage"
      [] page = "campResourceManagement" -> "CampResourceManagementPage"
      [] page = "connectWithAuthorities" -> "ConnectWithAuthoritiesPage"
      [] page = "viewCampReviews" -> "ViewCampReviewsPage"
      [] page = "manageCampFollowUps" -> "ManageFollowUpsPage"

CampPages ==
    {"campDetails", "campResourceManagement", "connectWithAuthorities",
     "viewCampReviews", "manageCampFollowUps"}

\* renderPage (lines 97-195): what it returns, and the page it redirects to.
renderPage(page, user, camp) ==
    CASE page = "home" -> Shown("Home")
      [] page = "about" -> Shown("About")
      [] page = "login" -> Shown("LoginForm")
      [] page = "signup" -> Shown("SignUpForm")
      [] page = "organizerDashboard" ->
            IF IsType(user, "organizer") THEN Shown("OrganizerDashboard")
            ELSE Redirected(DashboardRedirect(user))
      [] page \in CampPages ->
            IF CampPageAllowed(user, camp) THEN Shown(CampComponent(page))
            ELSE Redirected(CampPageRedirect(user))
      [] page = "authorityDashboard" ->
            IF IsType(user, "local_organisation")
            THEN Shown("AuthorityDashboard")
            ELSE Redirected(DashboardRedirect(user))
      [] page = "patientDashboard" ->
            IF IsType(user, "requester") THEN Shown("PatientDashboard")
            ELSE Redirected(DashboardRedirect(user))
      [] OTHER -> [component |-> "Home", redirect |-> "home"]

\* One render of App.
Render ==
    /\ renderPending
    /\ LET result == renderPage(currentPage, currentUser, selectedCampId)
       IN  /\ rendered' = result.component
           /\ IF result.redirect # ""
              THEN /\ currentPage' = result.redirect
                   /\ redirects' = redirects + 1
                   /\ renderPending' = TRUE
              ELSE /\ renderPending' = FALSE
                   /\ UNCHANGED <<currentPage, redirects>>
    /\ UNCHANGED <<currentUser, selectedCampId, localStorage, defaultHeaders,
                   pendingEffects, lastCall, offAppVars>>

\* The key gomedcampUser after the effect of lines 35-47.
UserItemKeptOnLogout ==
    IF currentUser # NoUser THEN Stringify(currentUser)
    ELSE localStorage.gomedcampUser

UserItem ==
    IF currentUser # NoUser THEN Stringify(currentUser) ELSE NoItem

\* The effect of lines 35-47.
UserEffect ==
    /\ ~renderPending /\ "currentUser" \in pendingEffects
    /\ localStorage' = [localStorage EXCEPT !.gomedcampUser = UserItem]
    /\ defaultHeaders' =
          IF currentUser # NoUser
          THEN IF currentUser.id # 0 THEN ToString(currentUser.id)
               ELSE defaultHeaders
          ELSE ""
    /\ pendingEffects' = pendingEffects \ {"currentUser"}
    /\ UNCHANGED <<currentPage, currentUser, selectedCampId, renderPending,
                   rendered, redirects, lastCall, offAppVars>>

\* The effect of lines 49-55.
CampEffect ==
    /\ ~renderPending /\ "selectedCampId" \in pendingEffects
    /\ localStorage' =
          [localStorage EXCEPT !.gomedcampSelectedCampId =
              IF selectedCampId # NoCampId THEN Stringify(selectedCampId)
              ELSE NoItem]
    /\ pendingEffects' = pendingEffects \ {"selectedCampId"}
    /\ UNCHANGED <<currentPage, currentUser, selectedCampId, defaultHeaders,
                   renderPending, rendered, redirects, lastCall, offAppVars>>

\* An event is handled once the last one is rendered and its effects ran.
AppSettled == ~renderPending /\ pendingEffects = {}

\* The state setter of line 24, as Navbar and the pages call it.
setCurrentPage(page) ==
    /\ AppSettled
    /\ currentPage' = page
    /\ renderPending' = TRUE
    /\ redirects' = 0
    /\ lastCall' = [op |-> "setCurrentPage"]
    /\ UNCHANGED <<currentUser, selectedCampId, localStorage, defaultHeaders,
                   pendingEffects, rendered, offAppVars>>

\* Lines 62-76.
handleLoginSuccess(userData) ==
    /\ AppSettled
    /\ currentUser' = userData
    /\ currentPage' =
          CASE userData.userType = "organizer" -> "organizerDashboard"
            [] userData.userType = "local_organisation" -> "authorityDashboard"
            [] userData.userType = "requester" -> "patientDashboard"
            [] OTHER -> "home"
    /\ pendingEffects' = pendingEffects \cup {"currentUser"}
    /\ renderPending' = TRUE
    /\ redirects' = 0
    /\ lastCall' = [op |-> "handleLoginSuccess"]
    /\ UNCHANGED <<selectedCampId, localStorage, defaultHeaders, rendered,
                   offAppVars>>

\* Lines 78-83.
handleSignUpSuccess ==
    /\ AppSettled
    /\ currentPage' = "login"
    /\ renderPending' = TRUE
    /\ redirects' = 0
    /\ lastCall' = [op |-> "handleSignUpSuccess"]
    /\ UNCHANGED <<currentUser, selectedCampId, localStorage, defaultHeaders,
                   pendingEffects, rendered, offAppVars>>

\* Lines 85-89; Navbar shows the Logout button to a logged-in user.
handleLogout ==
    /\ AppSettled
    /\ currentUser # NoUser
    /\ currentUser' = NoUser
    /\ selectedCampId' = NoCampId
    /\ currentPage' = "home"
    /\ pendingEffects' =
          pendingEffects \cup {"currentUser"}
             \cup (IF selectedCampId # NoCampId THEN {"selectedCampId"} ELSE {})
    /\ renderPending' = TRUE
    /\ redirects' = 0
    /\ lastCall' = [op |-> "handleLogout"]
    /\ UNCHANGED <<localStorage, defaultHeaders, rendered, offAppVars>>

\* Lines 91-95; OrganizerDashboard calls it with the camp that was clicked.
navigateToCampDetails(id) ==
    /\ AppSettled
    /\ rendered = "OrganizerDashboard"
    /\ selectedCampId' = id
    /\ currentPage' = "campDetails"
    /\ pendingEffects' =
          pendingEffects \cup (IF id # selectedCampId THEN {"selectedCampId"}
                               ELSE {})
    /\ renderPending' = TRUE
    /\ redirects' = 0
    /\ lastCall' = [op |-> "navigateToCampDetails"]
    /\ UNCHANGED <<currentUser, localStorage, defaultHeaders, rendered,
                   offAppVars>>

\* The X-User-Id header a request of the api instance carries: the request
\* interceptor of api.js (lines 14-33) over the default header.
RequestUserId ==
    LET user == ParseOrNull(localStorage.gomedcampUser, NoUser)
    IN  IF user # NoUser /\ user.id # 0 THEN ToString(user.id)
        ELSE defaultHeaders

\* App after its first render, with whatever an earlier visit has stored.
InitApp ==
    /\ \E user \in LoginUsers \cup {NoUser}, camp \in CampIds \cup {NoCampId} :
          localStorage =
             [gomedcampUser |->
                 IF user = NoUser THEN NoItem ELSE Stringify(user),
              gomedcampSelectedCampId |->
                 IF camp = NoCampId THEN NoItem ELSE Stringify(camp)]
    /\ currentPage = "home"
    /\ currentUser = ParseOrNull(localStorage.gomedcampUser, NoUser)
    /\ selectedCampId = ParseOrNull(localStorage.gomedcampSelectedCampId,
                                    NoCampId)
    /\ defaultHeaders = ""
    /\ pendingEffects = {"currentUser", "selectedCampId"}
    /\ renderPending = FALSE
    /\ rendered = "Home"
    /\ redirects = 0
    /\ lastCall = NoCall
    /\ PageUnmounted
    /\ DashboardUnmounted
    /\ ChatUnmounted
    /\ persisted = NothingPersisted

NextApp ==
    \/ Render
    \/ UserEffect
    \/ CampEffect
    \/ \E page \in Pages : setCurrentPage(page)
    \/ \E userData \in LoginUsers : handleLoginSuccess(userData)
    \/ handleSignUpSuccess
    \/ handleLogout
    \/ \E id \in CampIds : navigateToCampDetails(id)

SpecApp == InitApp /\ [][NextApp]_vars


(***************************************************************************)
(* C28: whenever App shows a page component, the six organizer pages are    *)
(* shown only to a logged-in organizer, the five camp pages only with a     *)
(* selected camp, the authority dashboard only to a local_organisation and  *)
(* the patient dashboard only to a requester; when renderPage returns       *)
(* nothing it has redirected to login, home or organizerDashboard, and at   *)
(* most one redirect precedes a page that is shown.                         *)
(***************************************************************************)
CampComponents == {CampComponent(page) : page \in CampPages}

C28_PagesRenderedOnlyForTheirUsers ==
    /\ ~renderPending =>
          /\ rendered # "null"
          /\ rendered \in CampComponents \cup {"OrganizerDashboard"}
                => IsType(currentUser, "organizer")
          /\ rendered \in CampComponents => selectedCampId # NoCampId
          /\ rendered = "AuthorityDashboard"
                => IsType(currentUser, "local_organisation")
          /\ rendered = "PatientDashboard" => IsType(currentUser, "requester")
    /\ rendered = "null" =>
          /\ renderPending
          /\ currentPage \in {"login", "home", "organizerDashboard"}
    /\ redirects <= 1

\* An organizer without a selected camp asked for a camp page and was sent
\* to the organizer dashboard, which is shown.
C28_Witness ==
    /\ ~renderPending
    /\ redirects = 1
    /\ rendered = "OrganizerDashboard"
    /\ IsType(currentUser, "organizer")
    /\ selectedCampId = NoCampId
    /\ lastCall.op = "setCurrentPage"

(***************************************************************************)
(* C29: once the persistence effects have run, the key gomedcampUser holds  *)
(* the current user exactly when currentUser is not null and the key        *)
(* gomedcampSelectedCampId holds the selected camp exactly when             *)
(* selectedCampId is not null; after a logout the user and the camp are     *)
(* null, the page is home, and no stored user, stored camp or X-User-Id     *)
(* header remains.                                                          *)
(***************************************************************************)
C29_StorageMirrorsState ==
    pendingEffects = {} =>
        /\ localStorage.gomedcampUser =
              (IF currentUser = NoUser THEN NoItem ELSE Stringify(currentUser))
        /\ localStorage.gomedcampSelectedCampId =
              (IF selectedCampId = NoCampId THEN NoItem
               ELSE Stringify(selectedCampId))
        /\ lastCall.op = "handleLogout" =>
              /\ currentUser = NoUser /\ selectedCampId = NoCampId
              /\ currentPage = "home"
              /\ localStorage = EmptyStorage
              /\ defaultHeaders = "" /\ RequestUserId = ""

\* An organizer with a selected camp, both stored, has logged out and the
\* effects have run.
C29_Witness ==
    /\ pendingEffects = {} /\ ~renderPending
    /\ lastCall.op = "handleLogout"
    /\ localStorage = EmptyStorage
    /\ rendered = "Home"


(***************************************************************************)
(* The connections and the chat of ConnectWithAuthoritiesPage               *)
(* (src/src/components/ConnectWithAuthoritiesPage.jsx) and of               *)
(* AuthorityDashboard (src/unnamed/part_002).  The two components keep the  *)
(* same state: the fetched connections (campConnections,                    *)
(* acceptedConnections), loading and activeChat.                            *)
(***************************************************************************)
offChatVars == <<pageVars, saveVars, persisted, dashboardVars, appVars>>

MaxConnections == 2
MaxChatFetches == 2

ChatPages == {"ConnectWithAuthoritiesPage", "AuthorityDashboard"}

Statuses == {"pending", "accepted", "declined"}

Connection(id, status) == [connection_id |-> id, status |-> status]

\* The lists a fetch of the connections answers with: connections 1, 2, ...
\* in any status.
ConnectionLists ==
    UNION { { [i \in 1..n |-> Connection(i, st[i])] : st \in [1..n -> Statuses] } :
            n \in 0..MaxConnections }

\* activeChat: null, or the object openChat builds.
NoChat == [open |-> FALSE]

ChatWith(conn) ==
    [open |-> TRUE, connectionId |-> conn.connection_id,
     chatWithUserType |-> IF chatPage = "AuthorityDashboard" THEN "Organizer"
                          ELSE "Local Authority"]

\* The list of the connections is on the screen: neither the loading
\* message nor the chat replaces it.
ConnectionsShown == chatPage # "none" /\ ~chatLoading /\ ~activeChat.open

\* The chat button of a connection (lines 182-184, part_002 lines 133-135).
ChatButtonShownAlways(conn) == TRUE

ChatButtonShown(conn) == conn.status = "accepted"

\* The click on a connection's chat button.
openChat ==
    /\ ConnectionsShown
    /\ \E i \in DOMAIN connections :
          /\ ChatButtonShown(connections[i])
          /\ activeChat' = ChatWith(connections[i])
    /\ lastCall' = [op |-> "openChat", connections |-> connections]
    /\ UNCHANGED <<chatPage, connections, chatLoading, chatFetches,
                   offChatVars>>

\* onClose of the ChatInterface (line 122, part_002 line 82).
closeChat ==
    /\ chatPage # "none" /\ ~chatLoading /\ activeChat.open
    /\ activeChat' = NoChat
    /\ lastCall' = [op |-> "closeChat"]
    /\ UNCHANGED <<chatPage, connections, chatLoading, chatFetches,
                   offChatVars>>

\* handleSendRequest (lines 74-95) and handleRequestAction (part_002 lines
\* 48-59) after their request succeeded: the connections are fetched again.
RefreshConnections ==
    /\ ConnectionsShown
    /\ chatFetches < MaxChatFetches
    /\ chatFetches' = chatFetches + 1
    /\ lastCall' = [op |-> IF chatPage = "AuthorityDashboard"
                           THEN "handleRequestAction"
                           ELSE "handleSendRequest"]
    /\ UNCHANGED <<chatPage, connections, chatLoading, activeChat,
                   offChatVars>>

\* A fetch of the connections answers (lines 49-50, part_002 lines 29-30);
\* the fetch of the mount also ends the loading (line 70, part_002 line 44).
FetchConnectionsOk ==
    /\ chatFetches > 0
    /\ connections' \in ConnectionLists
    /\ chatFetches' = chatFetches - 1
    /\ chatLoading' = FALSE
    /\ UNCHANGED <<chatPage, activeChat, lastCall, offChatVars>>

\* A fetch of the connections fails: setError, the list stays.
FetchConnectionsFailed ==
    /\ chatFetches > 0
    /\ chatFetches' = chatFetches - 1
    /\ chatLoading' = FALSE
    /\ UNCHANGED <<chatPage, connections, activeChat, lastCall, offChatVars>>

\* Either component just mounted: its effect has started the fetches.
InitChat ==
    /\ chatPage \in ChatPages
    /\ connections = <<>>
    /\ chatLoading = TRUE
    /\ activeChat = NoChat
    /\ chatFetches = 1
    /\ PageUnmounted
    /\ DashboardUnmounted
    /\ AppAtRest
    /\ persisted = NothingPersisted

NextChat ==
    \/ openChat
    \/ closeChat
    \/ RefreshConnections
    \/ FetchConnectionsOk
    \/ FetchConnectionsFailed

SpecChat == InitChat /\ [][NextChat]_vars

(***************************************************************************)
(* C30: on both components activeChat is set only to a connection whose     *)
(* fetched status is 'accepted', never to a pending or declined one, and    *)
(* closing the chat resets activeChat to null.                              *)
(***************************************************************************)
C30_ChatOnlyForAcceptedConnections ==
    /\ activeChat.open =>
          /\ lastCall.op = "openChat"
          /\ \E i \in DOMAIN lastCall.connections :
                /\ lastCall.connections[i].connection_id = activeChat.connectionId
                /\ lastCall.connections[i].status = "accepted"
    /\ lastCall.op = "closeChat" => activeChat = NoChat

\* A chat is open on the authority's dashboard while the fetched list also
\* holds a connection that is not accepted.
C30_Witness ==
    /\ chatPage = "AuthorityDashboard"
    /\ activeChat.open
    /\ \E i \in DOMAIN lastCall.connections :
          lastCall.connections[i].status # "accepted"


====
